---- MODULE Spec2Model ----
(***************************************************************************)
(* Rating-write ingestion, hotness tracking and staleness-triggered        *)
(* recalculation of DoroScore (package services: RatingTrackerService;     *)
(* package controllers: the batched TestController; package models:        *)
(* CalculateAndStoreMovieAvgRating).                                       *)
(*                                                                         *)
(* Conventions                                                             *)
(*   - a rating is counted in half stars (the generators produce           *)
(*     0.5 .. 5.0 in steps of 0.5), so 1 .. 10;                            *)
(*   - a float64 average is the exact fraction <<n, d>> in lowest terms,   *)
(*     in half stars;                                                      *)
(*   - time.Now() is the variable now, in whole hours;                     *)
(*   - an HBase call that can return an error is a choice ok \in BOOLEAN.  *)
(***************************************************************************)
EXTENDS Integers, Sequences, FiniteSets, TLC

(* ------------------------------------------------------------------ *)
(* Bounds of the model                                                 *)
(* ------------------------------------------------------------------ *)

\* items whose backing-store write may succeed in one behaviour
MaxPuts == 5
\* NewRatingTrackerService sets maxRecords to 10000; the model scales it down
ScaledMaxRecords == 3
\* the same, where the write event log is checked
MaxPutsLog == 4
\* the writes of one behaviour of the batch ingestion: the items generateBatchData
\* appends and the single writes whose Put succeeds
MaxWrites == 3
\* the same, where the buffer is checked alone
MaxWritesBuffer == 5
\* the same, where the flush ticker is checked under low traffic
MaxWritesDrip == 1
MaxWritesAvg == 4
\* the same, where the ranking or the hotness of a movie is queried
MaxWritesTop == 2
\* the same, where the threshold status is queried
MaxWritesStatus == 2
\* the same, where the write statistics are queried
MaxWritesStats == 4
\* the same, where every query is called
MaxWritesQueries == 1
\* the same, where time passes and the log is queried
MaxWritesClock == 2
\* the same, where time passes and the hotness of a movie is queried
MaxWritesDecay == 1
\* the hours that pass in one behaviour
MaxHours == 2
MaxWritesLocks == 3
MaxWritesReaders == 2
MaxWritesDispatch == 3
\* StartRandomRatings calls that may succeed in one behaviour
MaxStarts == 1
\* the same, under low traffic
MaxStartsDrip == 2
\* NewTestController sets batchSize to 50; the model scales it down
ScaledBatchSize == 2
DefaultBatchSize == 50

Movies == {"1", "2", "3", "4"}
Users == {"10001", "10002"}
Ratings == {6, 10}
\* the slots for recalculateMovieRating goroutines alive at once
Slots == {1, 2}
\* the request for GetRandomRatingsStatus or GetRandomRatingsLogs being served
StatusCallers == {"s1"}
\* the requests for StartRandomRatings or StopRandomRatings
Callers == {"c1", "c2", "c3"}
\* the requests for GetHotMovies or GetMovieHotness that may be served at a time
Readers == {"r1", "r2"}
\* generateBatchData appends rand.Intn(6) + 5 items, 5 to 10, a tenth to a fifth of
\* batchSize; scaled down, one or two
GenCounts == {1, 2}

\* The ratings row of a movie as the store holds it before the first modelled
\* write: BaseCount cells of other users whose ratings sum to BaseSum half stars.
BaseCount(m) ==
    IF m = "2" THEN 40 ELSE IF m = "3" THEN 30 ELSE IF m = "4" THEN 100 ELSE 0
BaseSum(m) ==
    IF m = "2" THEN 280 ELSE IF m = "3" THEN 240 ELSE IF m = "4" THEN 800 ELSE 0

VARIABLES
    \* RatingTrackerService
    writeRecords,   \* rts.writeRecords: sequence of RatingWriteRecord
    movieStats,     \* rts.movieStats: map movieID -> MovieHotness
    maxRecords,     \* rts.maxRecords
    rtsMu,          \* rts.mu: 0 when free, else the recalculation goroutine holding it
    recalc,         \* the recalculateMovieRating goroutines, by slot
    \* WriteRatingToHBase callers
    api,            \* the request between its Put and its RecordRatingWrite
    \* TestController (the batched one)
    isRunning,      \* tc.isRunning
    stopChan,       \* tc.stopChan: the channel the field holds, by number
    closedChans,    \* the channels close() was called on
    batchSize,      \* tc.batchSize
    batchBuffer,    \* tc.batchBuffer
    batchMu,        \* tc.batchMu: "" when free, else the thread holding it
    totalInserted,  \* tc.totalInserted
    errorCount,     \* tc.errorCount
    tcMovieStats,   \* tc.movieStats: map movieID -> count
    pc,             \* where each ingestion goroutine and the stop handler is
    watch,          \* per ingestion goroutine, the channel its select receives
                    \* from: tc.stopChan as it was when the select was entered
    flush,          \* the batchWriteToHBase call in progress: its items, its
                    \* partition goroutines and its two counters
    \* HBase
    ratingsRow,     \* "<movie>_ratings": user -> rating, the cells the modelled users wrote
    statsRow,       \* "<movie>_stats": avg_rating, rating_count
    \* the clock
    now,
    \* the requests the environment may send: the movies, users and ratings they
    \* name and how many of them the store may accept; and which of the answers of
    \* GetMovieRatingThresholdStatus and GetWriteStats, and whether the scans of the
    \* recalculations, the history keeps
    env,
    \* history
    putOK,          \* per movie, the items whose Put has succeeded so far
    enqueued,       \* the items generateBatchData has appended so far
    flushes,        \* the flushes begun so far, by what triggered them
    recorded,       \* every record RecordRatingWrite has appended, in order
    lastRecent,     \* the last result GetRecentWrites returned, its argument, and
                    \* how many records had been appended when it was called
    lastTop,        \* the last result GetHotMovies returned, its argument, and the
                    \* records and recalculations of the tracker as it returned
    lastHot,        \* the last answer of GetMovieHotness and the movie it was asked for
    lastStatus,     \* the last answer of GetMovieRatingThresholdStatus
    lastStats,      \* the last answer of GetWriteStats
    newestScan,     \* per movie, of the recalculations that have completed, the one
                    \* whose scan read the ratings row last: how many Puts the row
                    \* had taken, and the average and the count it read
    calls,          \* per caller of StartRandomRatings or StopRandomRatings, the
                    \* request made, the answer, and tc.stopChan as it was answered
    \* GetHotMovies and GetMovieHotness callers
    readers,        \* the requests that hold rts.mu.RLock(), and what they have to do
    \* GetRandomRatingsStatus and GetRandomRatingsLogs callers
    tcLocks,        \* tc.mu and tc.writesMu: the writer ("" if none) and the readers
    status,         \* the position of each request
    \* the TestController without batches
    plain           \* isRunning, the holder of its mu ("" if none), the length of
                    \* its logs, and where each handler and the goroutine is

lockVars == <<tcLocks, status, plain>>
replyVars == <<lastTop, lastHot, lastStatus, lastStats, newestScan, calls>>
trackerVars == <<writeRecords, movieStats, maxRecords, rtsMu, recalc>>
storeVars == <<ratingsRow, statsRow>>
batchVars == <<isRunning, stopChan, closedChans, batchSize, batchBuffer, batchMu,
               totalInserted, errorCount, tcMovieStats, pc, watch, flush, enqueued,
               flushes>>
vars == <<writeRecords, movieStats, maxRecords, rtsMu, recalc, api,
          ratingsRow, statsRow, now, env, batchVars, putOK, recorded, lastRecent, replyVars,
          readers, lockVars>>

(* ------------------------------------------------------------------ *)
(* Arithmetic on fractions                                             *)
(* ------------------------------------------------------------------ *)

RECURSIVE GCD(_, _)
GCD(a, b) == IF b = 0 THEN a ELSE GCD(b, a % b)

Frac(n, d) == LET g == GCD(n, d) IN <<n \div g, d \div g>>

FracLeq(p, q) == p[1] * q[2] <= q[1] * p[2]

RECURSIVE SumSeq(_)
SumSeq(s) == IF s = <<>> THEN 0 ELSE Head(s) + SumSeq(Tail(s))

RECURSIVE SumOver(_, _)
SumOver(f, S) ==
    IF S = {} THEN 0
    ELSE LET x == CHOOSE y \in S : TRUE IN f[x] + SumOver(f, S \ {x})

(* ------------------------------------------------------------------ *)
(* RatingTrackerService                                                *)
(* ------------------------------------------------------------------ *)

\* threshold := int(float64(LastRatingCount) * 0.1); if threshold < 1 { threshold = 1 }
\* (for a count >= 0 the float product truncates to count \div 10)
Threshold(lastRatingCount) ==
    LET t == lastRatingCount \div 10 IN IF t < 1 THEN 1 ELSE t

\* NeedsRecalculation with > for >=
NeedsRecalculationStrict(hotness) ==
    hotness.NewWritesSinceCalc > Threshold(hotness.LastRatingCount)

\* the condition of checkAndRecalculateRating's go statement
NeedsRecalculation(hotness) ==
    hotness.NewWritesSinceCalc >= Threshold(hotness.LastRatingCount)

\* HotnessScoreOf with the time factor 1 + hours/24 in place of 1 / (1 + hours/24)
HotnessScoreOfGrowing(hotness, t) ==
    LET hours == t - hotness.LastWrite
        a == hotness.AvgRating
    IN  Frac(hotness.WriteCount * (24 + hours) * (70 * a[2] + 3 * a[1]),
             24 * 100 * a[2])

\* calculateHotnessScore: writeScore * timeDecay * (0.7 + 0.3 * AvgRating / 5.0),
\* timeDecay = 1 / (1 + hours/24)
HotnessScoreOf(hotness, t) ==
    LET hours == t - hotness.LastWrite
        a == hotness.AvgRating
    IN  Frac(hotness.WriteCount * 24 * (70 * a[2] + 3 * a[1]),
             (24 + hours) * 100 * a[2])

calculateHotnessScore(hotness, t) ==
    [hotness EXCEPT !.HotnessScore = HotnessScoreOf(hotness, t)]

\* AppendRecord that never drops a record
AppendRecordUncapped(records, record, cap) == Append(records, record)

\* AppendRecord that drops the new record instead of the oldest when full
AppendRecordKeepOldest(records, record, cap) ==
    LET all == Append(records, record)
    IN  IF Len(all) > cap THEN SubSeq(all, 1, cap) ELSE all

\* the append and the truncation of RecordRatingWrite
AppendRecord(records, record, cap) ==
    LET all == Append(records, record)
    IN  IF Len(all) > cap
        THEN SubSeq(all, Len(all) - cap + 1, Len(all))
        ELSE all

\* UpdateHotness that forgets NewWritesSinceCalc++
UpdateHotnessNoPending(hotness, rating, t) ==
    [hotness EXCEPT !.WriteCount = @ + 1,
                    !.LastWrite = t,
                    !.AvgRating = Frac(@[1] + rating * @[2], 2 * @[2])]

\* UpdateHotness that keeps the mean of the ratings written
UpdateHotnessMean(hotness, rating, t) ==
    [hotness EXCEPT !.WriteCount = @ + 1,
                    !.LastWrite = t,
                    !.NewWritesSinceCalc = @ + 1,
                    !.AvgRating = Frac(@[1] * hotness.WriteCount + rating * @[2],
                                       (hotness.WriteCount + 1) * @[2])]

\* the existing-movie branch of RecordRatingWrite
UpdateHotness(hotness, rating, t) ==
    [hotness EXCEPT !.WriteCount = @ + 1,
                    !.LastWrite = t,
                    !.NewWritesSinceCalc = @ + 1,
                    !.AvgRating = Frac(@[1] + rating * @[2], 2 * @[2])]

\* the new-movie branch of RecordRatingWrite
NewHotness(movieID, rating, t, currentRatingCount) ==
    [MovieID |-> movieID, Title |-> <<>>, WriteCount |-> 1, LastWrite |-> t,
     AvgRating |-> <<rating, 1>>, HotnessScore |-> <<0, 1>>,
     LastRatingCount |-> currentRatingCount, NewWritesSinceCalc |-> 1]

\* getCurrentRatingCount that reports a failed read as a count of 1
getCurrentRatingCountOrOne(movieID, ok) ==
    IF ok /\ movieID \in DOMAIN statsRow THEN statsRow[movieID].count ELSE 1

\* getCurrentRatingCount: 0 when GetMovieStats fails or the row has no count
getCurrentRatingCount(movieID, ok) ==
    IF ok /\ movieID \in DOMAIN statsRow THEN statsRow[movieID].count ELSE 0

IdleReader ==
    [pc |-> "idle", op |-> "", score |-> {}, title |-> {}, cur |-> "", raced |-> FALSE]
\* no request holds rts.mu.RLock()
NoReader == \A r \in Readers : readers[r].pc = "idle"
\* at and wc are history: the Puts the ratings row had taken and the movie's
\* WriteCount when the goroutine's scan read the row
IdleTask == [pc |-> "idle", movieID |-> "", avg |-> <<0, 1>>, count |-> 0,
             at |-> 0, wc |-> 0]

FreeSlots == {i \in Slots : recalc[i].pc = "idle"}

\* Spawn behind a recompute-in-progress flag: no goroutine while one is alive
SpawnIfNone(movieID) ==
    IF \E i \in Slots : recalc[i].pc # "idle" /\ recalc[i].movieID = movieID
    THEN UNCHANGED recalc
    ELSE LET i == CHOOSE j \in FreeSlots : \A k \in FreeSlots : j <= k
         IN  /\ FreeSlots # {}
             /\ recalc' = [recalc EXCEPT ![i] = [IdleTask EXCEPT !.pc = "scan",
                                                                  !.movieID = movieID]]

\* go rts.recalculateMovieRating(movieID)
Spawn(movieID) ==
    /\ FreeSlots # {}
    /\ LET i == CHOOSE j \in FreeSlots : \A k \in FreeSlots : j <= k
       IN  recalc' = [recalc EXCEPT ![i] = [IdleTask EXCEPT !.pc = "scan",
                                                            !.movieID = movieID]]

\* RecordRatingWrite, from Lock to the deferred Unlock
RecordRatingWrite(movieID, userID, rating, source) ==
    /\ rtsMu = 0
    /\ NoReader
    /\ LET record == [MovieID |-> movieID, UserID |-> userID, Rating |-> rating,
                      Timestamp |-> now, Source |-> source]
       IN  /\ writeRecords' = AppendRecord(writeRecords, record, maxRecords)
           /\ recorded' = Append(recorded, record)
    /\ \E ok \in env.statsOK :
         LET updated ==
               IF movieID \in DOMAIN movieStats
               THEN UpdateHotness(movieStats[movieID], rating, now)
               ELSE NewHotness(movieID, rating, now, getCurrentRatingCount(movieID, ok))
         IN  /\ movieID \in DOMAIN movieStats => ok
             /\ movieStats' = [m \in DOMAIN movieStats \cup {movieID} |->
                                 IF m = movieID
                                 THEN calculateHotnessScore(updated, now)
                                 ELSE movieStats[m]]
             /\ IF NeedsRecalculation(updated)
                THEN Spawn(movieID)
                ELSE UNCHANGED recalc
    /\ UNCHANGED <<maxRecords, rtsMu>>

(* ------------------------------------------------------------------ *)
(* CalculateAndStoreMovieAvgRating and recalculateMovieRating          *)
(* ------------------------------------------------------------------ *)

\* the cells of the ratings row, counted and summed
RowCount(m) == BaseCount(m) + Cardinality(DOMAIN ratingsRow[m])
RowSum(m) == BaseSum(m) + SumOver(ratingsRow[m], DOMAIN ratingsRow[m])

\* the Get of the ratings row and the mean of its cells; an error ends the goroutine
RecalcScan(i) ==
    /\ recalc[i].pc = "scan"
    /\ \E ok \in BOOLEAN :
         LET m == recalc[i].movieID IN
         IF ok /\ RowCount(m) > 0
         THEN recalc' = [recalc EXCEPT ![i].pc = "store",
                                       ![i].avg = Frac(RowSum(m), RowCount(m)),
                                       ![i].count = RowCount(m),
                                       ![i].at = IF "scans" \in env.replies
                                                 THEN putOK[m] ELSE 0,
                                       ![i].wc = IF "scans" \in env.replies
                                                    /\ m \in DOMAIN movieStats
                                                 THEN movieStats[m].WriteCount
                                                 ELSE 0]
         ELSE recalc' = [recalc EXCEPT ![i] = IdleTask]
    /\ UNCHANGED <<writeRecords, movieStats, maxRecords, rtsMu, api, storeVars,
                   now, env, batchVars, putOK, recorded, lastRecent, replyVars, readers, lockVars>>

\* StoreMovieAvgRatingToStats: "%.6f" of the average, "%d" of the count
Fmt6(avg) == (2 * 500000 * avg[1] + avg[2]) \div (2 * avg[2])

\* RecalcStore whose failure resets NewWritesSinceCalc all the same
RecalcStoreResetOnFail(i) ==
    /\ recalc[i].pc = "store"
    /\ \/ /\ statsRow' = [m \in DOMAIN statsRow \cup {recalc[i].movieID} |->
                            IF m = recalc[i].movieID
                            THEN [avg6 |-> Fmt6(recalc[i].avg), count |-> recalc[i].count]
                            ELSE statsRow[m]]
          /\ recalc' = [recalc EXCEPT ![i].pc = "lock"]
          /\ UNCHANGED movieStats
       \/ /\ recalc' = [recalc EXCEPT ![i] = IdleTask]
          /\ movieStats' = [movieStats EXCEPT
                              ![recalc[i].movieID].NewWritesSinceCalc = 0]
          /\ UNCHANGED statsRow
    /\ UNCHANGED <<writeRecords, maxRecords, rtsMu, api, ratingsRow,
                   now, env, batchVars, putOK, recorded, lastRecent, replyVars, readers, lockVars>>

RecalcStore(i) ==
    /\ recalc[i].pc = "store"
    /\ \/ /\ statsRow' = [m \in DOMAIN statsRow \cup {recalc[i].movieID} |->
                            IF m = recalc[i].movieID
                            THEN [avg6 |-> Fmt6(recalc[i].avg), count |-> recalc[i].count]
                            ELSE statsRow[m]]
          /\ recalc' = [recalc EXCEPT ![i].pc = "lock"]
       \/ /\ recalc' = [recalc EXCEPT ![i] = IdleTask]
          /\ UNCHANGED statsRow
    /\ UNCHANGED <<writeRecords, movieStats, maxRecords, rtsMu, api, ratingsRow,
                   now, env, batchVars, putOK, recorded, lastRecent, replyVars, readers, lockVars>>

\* RecalcLock that goes on without taking rts.mu
RecalcNoLock(i) ==
    /\ recalc[i].pc = "lock"
    /\ recalc' = [recalc EXCEPT ![i].pc = "set_count"]
    /\ UNCHANGED <<writeRecords, movieStats, maxRecords, rtsMu, api, storeVars,
                   now, env, batchVars, putOK, recorded, lastRecent, replyVars, readers, lockVars>>

\* rts.mu.Lock() of recalculateMovieRating
RecalcLock(i) ==
    /\ recalc[i].pc = "lock"
    /\ rtsMu = 0
    /\ NoReader
    /\ rtsMu' = i
    /\ recalc' = [recalc EXCEPT ![i].pc = "set_count"]
    /\ UNCHANGED <<writeRecords, movieStats, maxRecords, api, storeVars,
                   now, env, batchVars, putOK, recorded, lastRecent, replyVars, readers, lockVars>>

\* hotness.LastRatingCount = ratingCount
RecalcSetCount(i) ==
    /\ recalc[i].pc = "set_count"
    /\ movieStats' = [movieStats EXCEPT
                        ![recalc[i].movieID].LastRatingCount = recalc[i].count]
    /\ recalc' = [recalc EXCEPT ![i].pc = "set_pending"]
    /\ UNCHANGED <<writeRecords, maxRecords, rtsMu, api, storeVars,
                   now, env, batchVars, putOK, recorded, lastRecent, replyVars, readers, lockVars>>

\* hotness.NewWritesSinceCalc = 0
RecalcSetPending(i) ==
    /\ recalc[i].pc = "set_pending"
    /\ movieStats' = [movieStats EXCEPT ![recalc[i].movieID].NewWritesSinceCalc = 0]
    /\ recalc' = [recalc EXCEPT ![i].pc = "set_avg"]
    /\ UNCHANGED <<writeRecords, maxRecords, rtsMu, api, storeVars,
                   now, env, batchVars, putOK, recorded, lastRecent, replyVars, readers, lockVars>>

\* hotness.AvgRating = avgRating, then the deferred rts.mu.Unlock(); the goroutine ends
RecalcSetAvg(i) ==
    /\ recalc[i].pc = "set_avg"
    /\ rtsMu = i
    /\ movieStats' = [movieStats EXCEPT ![recalc[i].movieID].AvgRating = recalc[i].avg]
    /\ rtsMu' = 0
    /\ recalc' = [recalc EXCEPT ![i] = IdleTask]
    /\ newestScan' = [newestScan EXCEPT ![recalc[i].movieID] =
                         IF "scans" \in env.replies /\ recalc[i].at >= @.at
                         THEN [at |-> recalc[i].at, avg |-> recalc[i].avg,
                               count |-> recalc[i].count]
                         ELSE @]
    /\ UNCHANGED <<writeRecords, maxRecords, api, storeVars,
                   now, env, batchVars, putOK, recorded, lastRecent, lastTop, lastHot,
                   lastStatus, lastStats, calls, readers, lockVars>>

(* ------------------------------------------------------------------ *)
(* WriteRatingToHBase                                                  *)
(* ------------------------------------------------------------------ *)

NoRequest == [pc |-> "idle", movieID |-> "", userID |-> "", rating |-> 0]

\* the writes submitted so far: the items appended to the batch buffer, the item a
\* generateBatchData call under way will append at least, and the single writes
\* whose Put succeeded
Submitted ==
    enqueued + Cardinality({t \in DOMAIN pc : pc[t] = "gen"})
             + Cardinality({j \in 1..Len(recorded) : recorded[j].Source = "api"})
             + (IF api = NoRequest THEN 0 ELSE 1)

\* the Put of one cell of the ratings row
PutCell(row, movieID, userID, rating) ==
    [row EXCEPT ![movieID] = [u \in DOMAIN row[movieID] \cup {userID} |->
                                IF u = userID THEN rating ELSE row[movieID][u]]]

\* client.Put succeeds: the cell is written and RecordRatingWrite is due
ApiPutOk(movieID, userID, rating) ==
    /\ api.pc = "idle"
    /\ Submitted < env.maxWrites
    /\ ratingsRow' = PutCell(ratingsRow, movieID, userID, rating)
    /\ putOK' = [putOK EXCEPT ![movieID] = @ + 1]
    /\ api' = [pc |-> "record", movieID |-> movieID, userID |-> userID,
               rating |-> rating]
    /\ UNCHANGED <<trackerVars, statsRow, now, env, batchVars, recorded, lastRecent, replyVars, readers, lockVars>>

\* WriteRatingToHBase that goes on to RecordRatingWrite when client.Put has failed
ApiPutFailRecords(movieID, userID, rating) ==
    /\ api.pc = "idle"
    /\ Submitted < env.maxWrites
    /\ api' = [pc |-> "record", movieID |-> movieID, userID |-> userID,
               rating |-> rating]
    /\ UNCHANGED <<trackerVars, storeVars, now, env, batchVars, putOK, recorded,
                   lastRecent, replyVars, readers, lockVars>>

\* client.Put fails: the error is returned and nothing is recorded
ApiPutFail(movieID, userID, rating) ==
    /\ api.pc = "idle"
    /\ UNCHANGED vars

\* rts.RecordRatingWrite(movieID, userID, rating, source) after the Put
ApiRecord ==
    /\ api.pc = "record"
    /\ RecordRatingWrite(api.movieID, api.userID, api.rating, "api")
    /\ api' = NoRequest
    /\ UNCHANGED <<storeVars, now, env, batchVars, putOK, lastRecent, replyVars, readers, lockVars>>

(* ------------------------------------------------------------------ *)
(* TestController: the batch ingestion buffer                          *)
(* ------------------------------------------------------------------ *)

\* the goroutines runOptimizedRandomRatingsTask may run in, and the stop handler
Tasks == {"task1", "task2"}
Flushers == Tasks \cup {"stop"}

NoFlush == [owner |-> "", items |-> <<>>, parts |-> <<>>,
            successCount |-> 0, errorCount |-> 0]

\* the sequence of the elements of s that satisfy Test, in order
RECURSIVE SelectItems(_, _)
SelectItems(s, movieID) ==
    IF s = <<>> THEN <<>>
    ELSE IF Head(s).MovieID = movieID
         THEN <<Head(s)>> \o SelectItems(Tail(s), movieID)
         ELSE SelectItems(Tail(s), movieID)

\* movieGroups that keeps the first item's movie only
GroupKeysFirst(items) == {items[1].MovieID}

\* movieGroups that holds the items of a movie last-appended first
MovieGroupReversed(items, movieID) ==
    LET group == SelectItems(items, movieID)
    IN  [j \in 1..Len(group) |-> group[Len(group) + 1 - j]]

\* movieGroups of batchWriteToHBase
MovieGroup(items, movieID) == SelectItems(items, movieID)
GroupKeys(items) == {items[j].MovieID : j \in 1..Len(items)}

\* the values map of writeMovieRatingsBatch put into the row: one cell per user,
\* the last item of a user wins
RECURSIVE PutCells(_, _)
PutCells(row, items) ==
    IF items = <<>> THEN row
    ELSE PutCells(PutCell(row, Head(items).MovieID, Head(items).UserID,
                          Head(items).Rating),
                  Tail(items))

\* where a flusher goes on when its flush returns
AfterFlush(t) == IF t = "stop" THEN "off" ELSE "select"
\* the select an ingestion goroutine comes back to evaluates tc.stopChan anew
Watching(t) == IF t \in Tasks THEN [watch EXCEPT ![t] = stopChan] ELSE watch

\* batchWriteToHBase up to wg.Wait(): one goroutine per movie of the buffer
BeginFlush(t, buffer, trigger) ==
    /\ flush' = [owner |-> t, items |-> buffer,
                 parts |-> [m \in GroupKeys(buffer) |-> [pc |-> "put", next |-> 1]],
                 successCount |-> 0, errorCount |-> 0]
    /\ batchMu' = t
    /\ flushes' = [flushes EXCEPT ![trigger] = @ + 1]
    /\ pc' = [pc EXCEPT ![t] = "wait"]
    /\ UNCHANGED watch

\* the items generateBatchData may append in one call
Batches ==
    UNION {[1..k -> [MovieID : env.movies, UserID : env.users,
                     Rating : env.ratings, Source : {"test_batch"}]] :
           k \in env.genCounts}

\* the goroutine a go statement starts: the first one that is not running
FreeTask == IF pc["task1"] = "off" THEN "task1" ELSE "task2"

\* StartRandomRatings whose CompareAndSwap succeeds: the swap, the reset and the go
\* statement
StartAccepted ==
    /\ isRunning = 0
    /\ stopChan = 0 \/ (env.restarts /\ stopChan < env.maxStarts)
    /\ LET t == FreeTask IN
         /\ pc[t] = "off"
         /\ pc' = [pc EXCEPT ![t] = "select"]
         /\ watch' = [watch EXCEPT ![t] = stopChan + 1]
    /\ isRunning' = 1
    /\ stopChan' = stopChan + 1
    /\ tcMovieStats' = <<>>
    /\ totalInserted' = 0
    /\ errorCount' = 0
    /\ batchBuffer' = <<>>
    /\ UNCHANGED <<trackerVars, api, storeVars, now, env, closedChans, batchSize,
                   batchMu, flush, enqueued, flushes, putOK, recorded, lastRecent,
                   lastTop, lastHot, lastStatus, lastStats, newestScan, readers, lockVars>>

\* StartRandomRatings: the CompareAndSwap, the reset and the go statement
StartRandomRatings ==
    /\ StartAccepted
    /\ UNCHANGED calls

\* StopRandomRatings whose CompareAndSwap succeeds: the swap and close(tc.stopChan);
\* flushBatch is next
StopAccepted ==
    /\ isRunning = 1
    /\ pc["stop"] = "off"
    /\ isRunning' = 0
    /\ closedChans' = closedChans \cup {stopChan}
    /\ pc' = [pc EXCEPT !["stop"] = "flush"]
    /\ UNCHANGED <<watch, trackerVars, api, storeVars, now, env, stopChan, batchSize,
                   batchBuffer, batchMu, totalInserted, errorCount, tcMovieStats,
                   flush, enqueued, flushes, putOK, recorded, lastRecent,
                   lastTop, lastHot, lastStatus, lastStats, newestScan, readers, lockVars>>

\* StopRandomRatings: the CompareAndSwap and close(tc.stopChan); flushBatch is next
StopRandomRatings ==
    /\ StopAccepted
    /\ UNCHANGED calls

\* what calls holds of a caller that has made no request
NoCall == [op |-> "", reply |-> "", chan |-> 0]

\* a request for StartRandomRatings or StopRandomRatings arrives
Call(c, op) ==
    /\ "calls" \in env.replies
    /\ calls[c] = NoCall
    /\ calls' = [calls EXCEPT ![c].op = op]
    /\ UNCHANGED <<trackerVars, api, storeVars, now, env, batchVars, putOK,
                   recorded, lastRecent, lastTop, lastHot, lastStatus, lastStats,
                   newestScan, readers, lockVars>>

\* StartRandomRatings as its caller sees it: BadRequest when the CompareAndSwap fails
StartRequest(c) ==
    /\ calls[c].op = "start"
    /\ calls[c].reply = ""
    /\ IF isRunning = 0
       THEN /\ StartAccepted
            /\ calls' = [calls EXCEPT ![c].reply = "ok", ![c].chan = stopChan']
       ELSE /\ calls' = [calls EXCEPT ![c].reply = "rejected", ![c].chan = stopChan]
            /\ UNCHANGED <<trackerVars, api, storeVars, now, env, batchVars,
                           putOK, recorded, lastRecent, lastTop, lastHot, lastStatus,
                           lastStats, newestScan, readers, lockVars>>

\* StopRequest that closes tc.stopChan before it looks at isRunning
StopRequestClosing(c) ==
    /\ calls[c].op = "stop"
    /\ calls[c].reply = ""
    /\ IF isRunning = 1
       THEN /\ StopAccepted
            /\ calls' = [calls EXCEPT ![c].reply = "ok", ![c].chan = stopChan]
       ELSE /\ calls' = [calls EXCEPT ![c].reply = "rejected", ![c].chan = stopChan]
            /\ closedChans' = closedChans \cup {stopChan}
            /\ UNCHANGED <<trackerVars, api, storeVars, now, env, isRunning, stopChan,
                           batchSize, batchBuffer, batchMu, totalInserted, errorCount,
                           tcMovieStats, pc, watch, flush, enqueued, flushes,
                           putOK, recorded, lastRecent, lastTop, lastHot, lastStatus,
                           lastStats, newestScan, readers, lockVars>>

\* StopRandomRatings as its caller sees it: BadRequest when the CompareAndSwap fails
StopRequest(c) ==
    /\ calls[c].op = "stop"
    /\ calls[c].reply = ""
    /\ IF isRunning = 1
       THEN /\ StopAccepted
            /\ calls' = [calls EXCEPT ![c].reply = "ok", ![c].chan = stopChan]
       ELSE /\ calls' = [calls EXCEPT ![c].reply = "rejected", ![c].chan = stopChan]
            /\ UNCHANGED <<trackerVars, api, storeVars, now, env, batchVars,
                           putOK, recorded, lastRecent, lastTop, lastHot, lastStatus,
                           lastStats, newestScan, readers, lockVars>>

\* case <-tc.stopChan of the select of runOptimizedRandomRatingsTask
TaskStopped(t) ==
    /\ pc[t] = "select"
    /\ watch[t] \in closedChans
    /\ pc' = [pc EXCEPT ![t] = "off"]
    /\ UNCHANGED <<watch, trackerVars, api, storeVars, now, env, isRunning, stopChan,
                   closedChans, batchSize, batchBuffer, batchMu, totalInserted,
                   errorCount, tcMovieStats, flush, enqueued, flushes, putOK,
                   recorded, lastRecent, replyVars, readers, lockVars>>

\* case <-timeout
TaskTimeout(t) ==
    /\ pc[t] = "select"
    /\ isRunning' = 0
    /\ pc' = [pc EXCEPT ![t] = "off"]
    /\ UNCHANGED <<watch, trackerVars, api, storeVars, now, env, stopChan,
                   closedChans, batchSize, batchBuffer, batchMu, totalInserted,
                   errorCount, tcMovieStats, flush, enqueued, flushes, putOK,
                   recorded, lastRecent, replyVars, readers, lockVars>>

\* case <-ticker.C: generateBatchData is called
TaskTick(t) ==
    /\ pc[t] = "select"
    /\ Submitted < env.maxWrites
    /\ pc' = [pc EXCEPT ![t] = "gen"]
    /\ UNCHANGED <<watch, trackerVars, api, storeVars, now, env, isRunning, stopChan,
                   closedChans, batchSize, batchBuffer, batchMu, totalInserted,
                   errorCount, tcMovieStats, flush, enqueued, flushes, putOK,
                   recorded, lastRecent, replyVars, readers, lockVars>>

\* case <-flushTicker.C: flushBatch is called
TaskFlushTick(t) ==
    /\ pc[t] = "select"
    /\ pc' = [pc EXCEPT ![t] = "flush"]
    /\ UNCHANGED <<watch, trackerVars, api, storeVars, now, env, isRunning, stopChan,
                   closedChans, batchSize, batchBuffer, batchMu, totalInserted,
                   errorCount, tcMovieStats, flush, enqueued, flushes, putOK,
                   recorded, lastRecent, replyVars, readers, lockVars>>

\* generateBatchData that leaves a full buffer to the flush ticker
generateBatchDataNoFlush(t) ==
    /\ pc[t] = "gen"
    /\ batchMu = ""
    /\ \E items \in Batches :
         /\ Submitted - 1 + Len(items) <= env.maxWrites
         /\ enqueued' = enqueued + Len(items)
         /\ batchBuffer' = batchBuffer \o items
    /\ pc' = [pc EXCEPT ![t] = "select"]
    /\ watch' = [watch EXCEPT ![t] = stopChan]
    /\ UNCHANGED <<trackerVars, api, storeVars, now, env, isRunning, stopChan,
                   closedChans, batchSize, totalInserted, errorCount, tcMovieStats,
                   batchMu, flush, flushes, putOK, recorded, lastRecent, replyVars, readers, lockVars>>

\* generateBatchData: under tc.batchMu the items are appended; a buffer of batchSize
\* items or more is flushed before the deferred Unlock
generateBatchData(t) ==
    /\ pc[t] = "gen"
    /\ batchMu = ""
    /\ \E items \in Batches :
         LET buffer == batchBuffer \o items IN
         /\ Submitted - 1 + Len(items) <= env.maxWrites
         /\ enqueued' = enqueued + Len(items)
         /\ batchBuffer' = buffer
         /\ IF Len(buffer) >= batchSize
            THEN BeginFlush(t, buffer, "size")
            ELSE /\ pc' = [pc EXCEPT ![t] = "select"]
                 /\ watch' = [watch EXCEPT ![t] = stopChan]
                 /\ UNCHANGED <<batchMu, flush, flushes>>
    /\ UNCHANGED <<trackerVars, api, storeVars, now, env, isRunning, stopChan,
                   closedChans, batchSize, totalInserted, errorCount, tcMovieStats,
                   putOK, recorded, lastRecent, replyVars, readers, lockVars>>

\* flushBatch that flushes for the stop handler only
flushBatchOnStop(t) ==
    /\ pc[t] = "flush"
    /\ batchMu = ""
    /\ IF batchBuffer = <<>> \/ t # "stop"
       THEN /\ pc' = [pc EXCEPT ![t] = AfterFlush(t)]
            /\ watch' = Watching(t)
            /\ UNCHANGED <<batchMu, flush, flushes>>
       ELSE BeginFlush(t, batchBuffer, "stop")
    /\ UNCHANGED <<trackerVars, api, storeVars, now, env, isRunning, stopChan,
                   closedChans, batchSize, batchBuffer, totalInserted, errorCount,
                   tcMovieStats, enqueued, putOK, recorded, lastRecent, replyVars, readers, lockVars>>

\* flushBatch: tc.batchMu.Lock(), then flushBatchUnsafe, which returns at once on an
\* empty buffer
flushBatch(t) ==
    /\ pc[t] = "flush"
    /\ batchMu = ""
    /\ IF batchBuffer = <<>>
       THEN /\ pc' = [pc EXCEPT ![t] = AfterFlush(t)]
            /\ watch' = Watching(t)
            /\ UNCHANGED <<batchMu, flush, flushes>>
       ELSE BeginFlush(t, batchBuffer, IF t = "stop" THEN "stop" ELSE "timer")
    /\ UNCHANGED <<trackerVars, api, storeVars, now, env, isRunning, stopChan,
                   closedChans, batchSize, batchBuffer, totalInserted, errorCount,
                   tcMovieStats, enqueued, putOK, recorded, lastRecent, replyVars, readers, lockVars>>

\* writeMovieRatingsBatch: client.Put of the group succeeds
PartitionPutOk(movieID) ==
    /\ flush.owner # ""
    /\ movieID \in DOMAIN flush.parts
    /\ flush.parts[movieID].pc = "put"
    /\ LET group == MovieGroup(flush.items, movieID) IN
         /\ ratingsRow' = PutCells(ratingsRow, group)
         /\ putOK' = [putOK EXCEPT ![movieID] = @ + Len(group)]
    /\ flush' = [flush EXCEPT !.parts[movieID].pc = "record"]
    /\ UNCHANGED <<watch, trackerVars, api, statsRow, now, env, isRunning, stopChan,
                   closedChans, batchSize, batchBuffer, batchMu, totalInserted,
                   errorCount, tcMovieStats, pc, enqueued, flushes, recorded,
                   lastRecent, replyVars, readers, lockVars>>

\* writeMovieRatingsBatch that goes on to record the items of a failed Put
PartitionPutFailRecords(movieID) ==
    /\ flush.owner # ""
    /\ movieID \in DOMAIN flush.parts
    /\ flush.parts[movieID].pc = "put"
    /\ flush' = [flush EXCEPT !.parts[movieID].pc = "record"]
    /\ UNCHANGED <<watch, trackerVars, api, storeVars, now, env, isRunning, stopChan,
                   closedChans, batchSize, batchBuffer, batchMu, totalInserted,
                   errorCount, tcMovieStats, pc, enqueued, flushes, putOK,
                   recorded, lastRecent, replyVars, readers, lockVars>>

\* writeMovieRatingsBatch that reports a failed Put as one error
PartitionPutFailCountsOne(movieID) ==
    /\ flush.owner # ""
    /\ movieID \in DOMAIN flush.parts
    /\ flush.parts[movieID].pc = "put"
    /\ flush' = [flush EXCEPT
                   !.parts[movieID].pc = "done",
                   !.errorCount = @ + 1]
    /\ UNCHANGED <<watch, trackerVars, api, storeVars, now, env, isRunning, stopChan,
                   closedChans, batchSize, batchBuffer, batchMu, totalInserted,
                   errorCount, tcMovieStats, pc, enqueued, flushes, putOK,
                   recorded, lastRecent, replyVars, readers, lockVars>>

\* writeMovieRatingsBatch: client.Put fails; return 0, len(items), added under mu
PartitionPutFail(movieID) ==
    /\ flush.owner # ""
    /\ movieID \in DOMAIN flush.parts
    /\ flush.parts[movieID].pc = "put"
    /\ flush' = [flush EXCEPT
                   !.parts[movieID].pc = "done",
                   !.errorCount = @ + Len(MovieGroup(flush.items, movieID))]
    /\ UNCHANGED <<watch, trackerVars, api, storeVars, now, env, isRunning, stopChan,
                   closedChans, batchSize, batchBuffer, batchMu, totalInserted,
                   errorCount, tcMovieStats, pc, enqueued, flushes, putOK,
                   recorded, lastRecent, replyVars, readers, lockVars>>

\* writeMovieRatingsBatch: RecordRatingWrite of the next item of the group; after the
\* last one, return len(items), 0, added under mu
PartitionRecord(movieID) ==
    /\ flush.owner # ""
    /\ movieID \in DOMAIN flush.parts
    /\ flush.parts[movieID].pc = "record"
    /\ LET group == MovieGroup(flush.items, movieID)
           j == flush.parts[movieID].next
       IN  /\ RecordRatingWrite(group[j].MovieID, group[j].UserID, group[j].Rating,
                                group[j].Source)
           /\ flush' = IF j < Len(group)
                       THEN [flush EXCEPT !.parts[movieID].next = j + 1]
                       ELSE [flush EXCEPT !.parts[movieID].pc = "done",
                                          !.successCount = @ + Len(group)]
    /\ UNCHANGED <<watch, api, storeVars, now, env, isRunning, stopChan,
                   closedChans, batchSize, batchBuffer, batchMu, totalInserted,
                   errorCount, tcMovieStats, pc, enqueued, flushes, putOK,
                   lastRecent, replyVars, readers, lockVars>>

\* tc.movieStats[item.MovieID]++ for every item of the buffer
RECURSIVE CountItems(_, _)
CountItems(stats, items) ==
    IF items = <<>> THEN stats
    ELSE LET m == Head(items).MovieID
             n == IF m \in DOMAIN stats THEN stats[m] ELSE 0
         IN  CountItems([k \in DOMAIN stats \cup {m} |->
                            IF k = m THEN n + 1 ELSE stats[k]],
                        Tail(items))

\* flushBatchUnsafe that goes on without wg.Wait()
FlushFinishNoBarrier ==
    /\ flush.owner # ""
    /\ totalInserted' = totalInserted + flush.successCount
    /\ errorCount' = errorCount + flush.errorCount
    /\ tcMovieStats' = CountItems(tcMovieStats, batchBuffer)
    /\ batchBuffer' = <<>>
    /\ batchMu' = ""
    /\ pc' = [pc EXCEPT ![flush.owner] = AfterFlush(flush.owner)]
    /\ watch' = Watching(flush.owner)
    /\ flush' = NoFlush
    /\ UNCHANGED <<trackerVars, api, storeVars, now, env, isRunning, stopChan,
                   closedChans, batchSize, enqueued, flushes, putOK, recorded,
                   lastRecent, replyVars, readers, lockVars>>

\* flushBatchUnsafe that waits for the recalculateMovieRating goroutines too
FlushFinishAwaitsRecalc ==
    /\ flush.owner # ""
    /\ \A m \in DOMAIN flush.parts : flush.parts[m].pc = "done"
    /\ \A i \in Slots : recalc[i].pc = "idle"
    /\ totalInserted' = totalInserted + flush.successCount
    /\ errorCount' = errorCount + flush.errorCount
    /\ tcMovieStats' = CountItems(tcMovieStats, batchBuffer)
    /\ batchBuffer' = <<>>
    /\ batchMu' = ""
    /\ pc' = [pc EXCEPT ![flush.owner] = AfterFlush(flush.owner)]
    /\ watch' = Watching(flush.owner)
    /\ flush' = NoFlush
    /\ UNCHANGED <<trackerVars, api, storeVars, now, env, isRunning, stopChan,
                   closedChans, batchSize, enqueued, flushes, putOK, recorded,
                   lastRecent, replyVars, readers, lockVars>>

\* flushBatchUnsafe after wg.Wait(): the two counters, tc.movieStats, the buffer
\* truncated, and the return to the caller, whose deferred Unlock frees tc.batchMu
FlushFinish ==
    /\ flush.owner # ""
    /\ \A m \in DOMAIN flush.parts : flush.parts[m].pc = "done"
    /\ totalInserted' = totalInserted + flush.successCount
    /\ errorCount' = errorCount + flush.errorCount
    /\ tcMovieStats' = CountItems(tcMovieStats, batchBuffer)
    /\ batchBuffer' = <<>>
    /\ batchMu' = ""
    /\ pc' = [pc EXCEPT ![flush.owner] = AfterFlush(flush.owner)]
    /\ watch' = Watching(flush.owner)
    /\ flush' = NoFlush
    /\ UNCHANGED <<trackerVars, api, storeVars, now, env, isRunning, stopChan,
                   closedChans, batchSize, enqueued, flushes, putOK, recorded,
                   lastRecent, replyVars, readers, lockVars>>

(* ------------------------------------------------------------------ *)
(* Queries                                                             *)
(* ------------------------------------------------------------------ *)

\* RecentWrites that slices one record too many
RecentWritesOffByOne(records, limit) ==
    IF limit > 0 /\ Len(records) > limit
    THEN SubSeq(records, Len(records) - limit, Len(records))
    ELSE records

\* GetRecentWrites: the last limit records (all of them when limit <= 0), copied
RecentWrites(records, limit) ==
    IF limit > 0 /\ Len(records) > limit
    THEN SubSeq(records, Len(records) - limit + 1, Len(records))
    ELSE records

Limits == {0, 2, 10}

GetRecentWrites(limit) ==
    /\ rtsMu = 0
    /\ lastRecent' = [limit |-> limit, result |-> RecentWrites(writeRecords, limit),
                      at |-> Len(recorded)]
    /\ UNCHANGED <<trackerVars, api, storeVars, now, env, batchVars, putOK, recorded,
                   replyVars, readers, lockVars>>

\* getMovieTitle, or the placeholder GetMovieHotness puts in its place on an error
TitleOf(movieID, ok) == IF ok THEN <<"title", movieID>> ELSE <<"placeholder", movieID>>

\* what lastTop holds before any GetHotMovies
NoTop == [called |-> FALSE, limit |-> 0, result |-> <<>>, stats |-> <<>>, recalc |-> <<>>]

\* what lastHot holds before any GetMovieHotness
NoAnswer == [movieID |-> "", found |-> FALSE, hotness |-> <<>>]

\* Refreshed that resolves the title and leaves the score as it was
RefreshedTitleOnly(hotness, ok) ==
    IF hotness.Title = <<>>
    THEN [hotness EXCEPT !.Title = TitleOf(hotness.MovieID, ok)]
    ELSE hotness

\* Refreshed that counts the read as a write
RefreshedCounting(hotness, ok) ==
    LET scored == calculateHotnessScore([hotness EXCEPT !.WriteCount = @ + 1], now)
    IN  IF scored.Title = <<>>
        THEN [scored EXCEPT !.Title = TitleOf(scored.MovieID, ok)]
        ELSE scored

\* a record after GetMovieHotness or GetHotMovies has gone over it: the score is
\* refreshed and the title resolved once, in the record itself
Refreshed(hotness, ok) ==
    LET scored == calculateHotnessScore(hotness, now)
    IN  IF scored.Title = <<>>
        THEN [scored EXCEPT !.Title = TitleOf(scored.MovieID, ok)]
        ELSE scored

\* GetMovieHotness: the record of a tracked movie, refreshed; an error for any other
GetMovieHotness(movieID) ==
    /\ rtsMu = 0
    /\ IF movieID \in DOMAIN movieStats
       THEN \E ok \in env.titlesOK :
              /\ movieStats' = [movieStats EXCEPT ![movieID] = Refreshed(@, ok)]
              /\ lastHot' = [movieID |-> movieID, found |-> TRUE,
                             hotness |-> movieStats'[movieID]]
       ELSE /\ lastHot' = [movieID |-> movieID, found |-> FALSE, hotness |-> <<>>]
            /\ UNCHANGED movieStats
    /\ UNCHANGED <<writeRecords, maxRecords, rtsMu, recalc, api, storeVars,
                   now, env, batchVars, putOK, recorded, lastRecent, lastTop, lastStatus,
                   lastStats, newestScan, calls, readers,
                   lockVars>>

\* ThresholdStatus without the floor of 1 under the threshold
ThresholdStatusNoFloor(hotness) ==
    [movieId |-> hotness.MovieID,
     lastRatingCount |-> hotness.LastRatingCount,
     newWritesSinceCalc |-> hotness.NewWritesSinceCalc,
     threshold |-> hotness.LastRatingCount \div 10,
     needsRecalculation |-> hotness.NewWritesSinceCalc >= hotness.LastRatingCount \div 10,
     error |-> FALSE]

\* GetMovieRatingThresholdStatus: what it reports for a tracked movie
ThresholdStatus(hotness) ==
    [movieId |-> hotness.MovieID,
     lastRatingCount |-> hotness.LastRatingCount,
     newWritesSinceCalc |-> hotness.NewWritesSinceCalc,
     threshold |-> Threshold(hotness.LastRatingCount),
     needsRecalculation |-> hotness.NewWritesSinceCalc >= Threshold(hotness.LastRatingCount),
     error |-> FALSE]

\* what lastStatus holds before any GetMovieRatingThresholdStatus
NoStatus == [movieId |-> "", error |-> TRUE]

\* GetMovieRatingThresholdStatus under the read lock: the status of a tracked movie,
\* an error payload for any other
GetMovieRatingThresholdStatus(movieID) ==
    /\ rtsMu = 0
    /\ lastStatus' = IF "status" \notin env.replies THEN lastStatus
                     ELSE IF movieID \in DOMAIN movieStats
                          THEN ThresholdStatus(movieStats[movieID])
                          ELSE [movieId |-> movieID, error |-> TRUE]
    /\ UNCHANGED <<trackerVars, api, storeVars, now, env, batchVars, putOK, recorded,
                   lastRecent, lastTop, lastHot, lastStats, newestScan, calls, readers,
                   lockVars>>

\* WriteStats with the two windows taken for one another
WriteStatsWindowsSwapped(records, stats, t) ==
    [totalWrites |-> Len(records),
     totalMovies |-> Cardinality(DOMAIN stats),
     lastHour |-> Cardinality({j \in 1..Len(records) : t - records[j].Timestamp <= 24}),
     lastDay |-> Cardinality({j \in 1..Len(records) : t - records[j].Timestamp <= 1}),
     sourceStats |-> [src \in {records[j].Source : j \in 1..Len(records)} |->
                        Cardinality({j \in 1..Len(records) : records[j].Source = src})]]

\* GetWriteStats: the counts it reports, t being time.Now()
WriteStats(records, stats, t) ==
    [totalWrites |-> Len(records),
     totalMovies |-> Cardinality(DOMAIN stats),
     lastHour |-> Cardinality({j \in 1..Len(records) : t - records[j].Timestamp <= 1}),
     lastDay |-> Cardinality({j \in 1..Len(records) : t - records[j].Timestamp <= 24}),
     sourceStats |-> [src \in {records[j].Source : j \in 1..Len(records)} |->
                        Cardinality({j \in 1..Len(records) : records[j].Source = src})]]

\* GetWriteStats: under rts.mu.RLock() the log is counted
GetWriteStats ==
    /\ rtsMu = 0
    /\ lastStats' = IF "stats" \in env.replies
                    THEN WriteStats(writeRecords, movieStats, now)
                    ELSE lastStats
    /\ UNCHANGED <<trackerVars, api, storeVars, now, env, batchVars, putOK, recorded,
                   lastRecent, lastTop, lastHot, lastStatus, newestScan, calls, readers,
                   lockVars>>

(* ------------------------------------------------------------------ *)
(* Specification                                                       *)
(* ------------------------------------------------------------------ *)

(* ------------------------------------------------------------------ *)
(* The TestController without batches                                  *)
(* ------------------------------------------------------------------ *)

\* the request handlers and the runRandomRatingsTask goroutine
PlainThreads == Callers \cup {"task"}

\* NewTestController: not running, no log entry, tc.mu free
NewPlainController ==
    [isRunning |-> FALSE, mu |-> "", logs |-> 0,
     pc |-> [t \in PlainThreads |-> "off"]]

\* StartRandomRatings: tc.mu.Lock() with the Unlock deferred; BadRequest when running;
\* else the reset, the go statement and the call of addLog, tc.mu still held
PlainStartRandomRatings(c) ==
    /\ calls[c].op = "start"
    /\ calls[c].reply = ""
    /\ plain.pc[c] = "off"
    /\ plain.mu = ""
    /\ IF plain.isRunning
       THEN /\ calls' = [calls EXCEPT ![c].reply = "rejected"]
            /\ UNCHANGED plain
       ELSE /\ plain' = [plain EXCEPT !.isRunning = TRUE, !.logs = 0, !.mu = c,
                                      !.pc[c] = "addLog", !.pc["task"] = "addLog"]
            /\ UNCHANGED calls
    /\ UNCHANGED <<trackerVars, api, storeVars, now, env, batchVars, putOK, recorded,
                   lastRecent, lastTop, lastHot, lastStatus, lastStats, newestScan,
                   readers, tcLocks, status>>

\* StopRandomRatings: tc.mu.Lock() with the Unlock deferred; BadRequest when not
\* running; else isRunning = false, the close and the call of addLog, tc.mu still held
PlainStopRandomRatings(c) ==
    /\ calls[c].op = "stop"
    /\ calls[c].reply = ""
    /\ plain.pc[c] = "off"
    /\ plain.mu = ""
    /\ IF ~plain.isRunning
       THEN /\ calls' = [calls EXCEPT ![c].reply = "rejected"]
            /\ UNCHANGED plain
       ELSE /\ plain' = [plain EXCEPT !.isRunning = FALSE, !.mu = c,
                                      !.pc[c] = "addLog"]
            /\ UNCHANGED calls
    /\ UNCHANGED <<trackerVars, api, storeVars, now, env, batchVars, putOK, recorded,
                   lastRecent, lastTop, lastHot, lastStatus, lastStats, newestScan,
                   readers, tcLocks, status>>

\* addLog: tc.mu.Lock(), which blocks while anyone holds tc.mu, the caller itself
\* included (a sync.RWMutex is not reentrant); then the append and the Unlock. A
\* handler that gets through answers and its deferred Unlock runs; the goroutine
\* goes on to its select.
addLog(t) ==
    /\ plain.pc[t] \in IF plain.mu = "" THEN {"addLog", "blocked"} ELSE {"addLog"}
    /\ IF plain.mu = ""
       THEN /\ plain' = [plain EXCEPT !.logs = @ + 1,
                                      !.pc[t] = IF t = "task" THEN "select" ELSE "off"]
            /\ calls' = [c \in Callers |->
                           IF c = t THEN [calls[c] EXCEPT !.reply = "ok"] ELSE calls[c]]
       ELSE /\ plain' = [plain EXCEPT !.pc[t] = "blocked"]
            /\ UNCHANGED calls
    /\ UNCHANGED <<trackerVars, api, storeVars, now, env, batchVars, putOK, recorded,
                   lastRecent, lastTop, lastHot, lastStatus, lastStats, newestScan,
                   readers, tcLocks, status>>

\* what the tracker, the store and the request in flight are at start
InitState ==
    /\ writeRecords = <<>>
    /\ movieStats = <<>>
    /\ maxRecords = ScaledMaxRecords
    /\ rtsMu = 0
    /\ recalc = [i \in Slots |-> IdleTask]
    /\ api = NoRequest
    /\ ratingsRow = [m \in Movies |-> <<>>]
    /\ statsRow = [m \in {"2", "3", "4"} |->
                     [avg6 |-> Fmt6(Frac(BaseSum(m), BaseCount(m))),
                      count |-> BaseCount(m)]]
    /\ now = 0
    /\ isRunning = 0
    /\ stopChan = 0
    /\ closedChans = {}
    /\ batchBuffer = <<>>
    /\ batchMu = ""
    /\ totalInserted = 0
    /\ errorCount = 0
    /\ tcMovieStats = <<>>
    /\ pc = [t \in Flushers |-> "off"]
    /\ watch = [t \in Tasks |-> 0]
    /\ flush = NoFlush
    /\ enqueued = 0
    /\ flushes = [size |-> 0, timer |-> 0, stop |-> 0]
    /\ putOK = [m \in Movies |-> 0]
    /\ recorded = <<>>
    /\ lastRecent = [limit |-> 0, result |-> <<>>, at |-> 0]
    /\ lastTop = NoTop
    /\ lastHot = NoAnswer
    /\ lastStatus = NoStatus
    /\ lastStats = WriteStats(<<>>, <<>>, 0)
    /\ newestScan = [m \in Movies |-> [at |-> 0, avg |-> <<0, 1>>, count |-> 0]]
    /\ calls = [c \in Callers |-> NoCall]
    /\ plain = NewPlainController
    /\ readers = [r \in Readers |-> IdleReader]
    /\ tcLocks = [L \in {"mu", "writesMu"} |-> [w |-> "", r |-> {}]]
    /\ status = [s \in StatusCallers |-> "idle"]

Recalculation ==
    \/ \E i \in Slots : RecalcScan(i)
    \/ \E i \in Slots : RecalcStore(i)
    \/ \E i \in Slots : RecalcLock(i)
    \/ \E i \in Slots : RecalcSetCount(i)
    \/ \E i \in Slots : RecalcSetPending(i)
    \/ \E i \in Slots : RecalcSetAvg(i)

SingleWrites ==
    \/ \E m \in env.movies, u \in env.users, r \in env.ratings : ApiPutOk(m, u, r)
    \/ \E m \in env.movies, u \in env.users, r \in env.ratings : ApiPutFail(m, u, r)
    \/ ApiRecord

\* The tracker under single writes: the staleness-triggered recalculation
Init ==
    /\ InitState
    /\ batchSize = ScaledBatchSize
    /\ env = [movies |-> {"1", "2"}, users |-> {"10001"}, ratings |-> {10},
              maxWrites |-> MaxPuts, genCounts |-> {}, restarts |-> FALSE, maxStarts |-> 0, statsOK |-> BOOLEAN,
              titlesOK |-> BOOLEAN, replies |-> {}]

\* rts.mu.RLock() of GetMovieHotness for a tracked movie: its score and its title
\* are to be refreshed
ReaderBeginOne(r, movieID) ==
    /\ readers[r].pc = "idle"
    /\ rtsMu = 0
    /\ movieID \in DOMAIN movieStats
    /\ readers' = [readers EXCEPT ![r] = [IdleReader EXCEPT !.pc = "score",
                                                            !.op = "one",
                                                            !.score = {movieID},
                                                            !.title = {movieID}]]
    /\ UNCHANGED <<trackerVars, api, storeVars, now, env, batchVars, putOK, recorded,
                   lastRecent, replyVars, lockVars>>

\* rts.mu.RLock() of GetHotMovies: the scores of all tracked movies, then their titles
ReaderBeginTop(r) ==
    /\ readers[r].pc = "idle"
    /\ rtsMu = 0
    /\ DOMAIN movieStats # {}
    /\ readers' = [readers EXCEPT ![r] = [IdleReader EXCEPT !.pc = "score",
                                                            !.op = "top",
                                                            !.score = DOMAIN movieStats,
                                                            !.title = DOMAIN movieStats]]
    /\ UNCHANGED <<trackerVars, api, storeVars, now, env, batchVars, putOK, recorded,
                   lastRecent, replyVars, lockVars>>

\* rts.calculateHotnessScore(movieID) under the read lock: hotness.HotnessScore is
\* assigned. A request that assigns it at the same time computes the same value from
\* the same fields, which no writer changes meanwhile.
ReaderScore(r) ==
    /\ readers[r].pc = "score"
    /\ \E m \in readers[r].score :
         /\ movieStats' = [movieStats EXCEPT ![m] = calculateHotnessScore(@, now)]
         /\ readers' = [readers EXCEPT
                          ![r].score = @ \ {m},
                          ![r].pc = IF readers[r].score = {m} THEN "check" ELSE "score"]
    /\ UNCHANGED <<writeRecords, maxRecords, rtsMu, recalc, api, storeVars, now, env,
                   batchVars, putOK, recorded, lastRecent, replyVars, lockVars>>

\* if hotness.Title == "": the title is fetched next; else the next movie, and after
\* the last one the deferred rts.mu.RUnlock()
ReaderCheck(r) ==
    /\ readers[r].pc = "check"
    /\ \E m \in readers[r].title :
         IF movieStats[m].Title = <<>>
         THEN LET racing == {q \in Readers \ {r} :
                              readers[q].pc = "write" /\ readers[q].cur = m}
              IN  readers' = [q \in Readers |->
                                IF q = r
                                THEN [readers[r] EXCEPT !.pc = "write", !.cur = m,
                                                        !.raced = racing # {}]
                                ELSE IF q \in racing
                                THEN [readers[q] EXCEPT !.raced = TRUE]
                                ELSE readers[q]]
         ELSE readers' = [readers EXCEPT
                            ![r].title = @ \ {m},
                            ![r].op = IF readers[r].title = {m} THEN "" ELSE @,
                            ![r].pc = IF readers[r].title = {m} THEN "idle" ELSE "check"]
    /\ UNCHANGED <<trackerVars, api, storeVars, now, env, batchVars, putOK, recorded,
                   lastRecent, replyVars, lockVars>>

\* the values hotness.Title may hold after an assignment: the title or the
\* placeholder; after two unsynchronized assignments of different strings, also the
\* data pointer of one with the length of the other
TitlesWritten(movieID, raced) ==
    {TitleOf(movieID, TRUE), TitleOf(movieID, FALSE)}
        \cup (IF raced THEN {<<"torn", movieID>>} ELSE {})

\* hotness.Title = title (or the placeholder), after getMovieTitle
ReaderWrite(r) ==
    /\ readers[r].pc = "write"
    /\ LET m == readers[r].cur IN
         /\ \E v \in TitlesWritten(m, readers[r].raced) :
              movieStats' = [movieStats EXCEPT ![m].Title = v]
         /\ readers' = [readers EXCEPT
                          ![r].title = @ \ {m},
                          ![r].cur = "",
                          ![r].raced = FALSE,
                          ![r].op = IF readers[r].title = {m} THEN "" ELSE @,
                          ![r].pc = IF readers[r].title = {m} THEN "idle" ELSE "check"]
    /\ UNCHANGED <<writeRecords, maxRecords, rtsMu, recalc, api, storeVars, now, env,
                   batchVars, putOK, recorded, lastRecent, replyVars, lockVars>>

HotnessQueries ==
    \/ \E r \in Readers : \E m \in env.movies : ReaderBeginOne(r, m)
    \/ \E r \in Readers : ReaderBeginTop(r)
    \/ \E r \in Readers : ReaderScore(r)
    \/ \E r \in Readers : ReaderCheck(r)
    \/ \E r \in Readers : ReaderWrite(r)

\* the results GetHotMovies may return, had the comparison been the other way round
HotMoviesAscending(stats, limit) ==
    LET n == Cardinality(DOMAIN stats)
        sorted == {q \in [1..n -> DOMAIN stats] :
                     /\ \A i, j \in 1..n : i # j => q[i] # q[j]
                     /\ \A i \in 1..(n - 1) :
                          FracLeq(stats[q[i]].HotnessScore, stats[q[i + 1]].HotnessScore)}
    IN  {IF limit > 0 /\ n > limit THEN SubSeq(q, 1, limit) ELSE q : q \in sorted}

\* the results GetHotMovies may return: the records in descending order of score (the
\* sort is not stable), cut to limit when limit > 0
HotMovies(stats, limit) ==
    LET n == Cardinality(DOMAIN stats)
        sorted == {q \in [1..n -> DOMAIN stats] :
                     /\ \A i, j \in 1..n : i # j => q[i] # q[j]
                     /\ \A i \in 1..(n - 1) :
                          FracLeq(stats[q[i + 1]].HotnessScore, stats[q[i]].HotnessScore)}
    IN  {IF limit > 0 /\ n > limit THEN SubSeq(q, 1, limit) ELSE q : q \in sorted}

\* GetHotMovies: every score is refreshed and every missing title resolved, then the
\* records are sorted and cut; the records returned are the tracker's own
GetHotMovies(limit) ==
    /\ rtsMu = 0
    /\ \E titled \in [DOMAIN movieStats -> env.titlesOK] :
         movieStats' = [m \in DOMAIN movieStats |-> Refreshed(movieStats[m], titled[m])]
    /\ \E q \in HotMovies(movieStats', limit) :
         lastTop' = [called |-> TRUE, limit |-> limit,
                     result |-> [i \in 1..Len(q) |-> movieStats'[q[i]]],
                     stats |-> movieStats', recalc |-> recalc]
    /\ UNCHANGED <<writeRecords, maxRecords, rtsMu, recalc, api, storeVars,
                   now, env, batchVars, putOK, recorded, lastRecent, lastHot, lastStatus,
                   lastStats, newestScan, calls, readers,
                   lockVars>>

\* the limits GetHotMovies is asked with: none, fewer than and more than the movies
\* tracked
TopLimits == {0, 1, 3}

TopQueries == \E n \in TopLimits : GetHotMovies(n)

\* The tracker under single writes and GetHotMovies: the ranking
InitTop ==
    /\ InitState
    /\ batchSize = ScaledBatchSize
    /\ env = [movies |-> {"1", "2"}, users |-> {"10001"}, ratings |-> Ratings,
              maxWrites |-> MaxWritesTop, genCounts |-> {}, restarts |-> FALSE,
              maxStarts |-> 0, statsOK |-> {TRUE},
              titlesOK |-> {TRUE}, replies |-> {}]

NextTop == SingleWrites \/ Recalculation \/ TopQueries

SpecTop == InitTop /\ [][NextTop]_vars

\* The tracker under single writes and GetMovieHotness, for movies written or not
InitHot ==
    /\ InitState
    /\ batchSize = ScaledBatchSize
    /\ env = [movies |-> {"1", "2"}, users |-> {"10001"}, ratings |-> Ratings,
              maxWrites |-> MaxWritesTop, genCounts |-> {}, restarts |-> FALSE,
              maxStarts |-> 0, statsOK |-> {TRUE},
              titlesOK |-> BOOLEAN, replies |-> {}]

NextHot == SingleWrites \/ Recalculation \/ \E m \in Movies : GetMovieHotness(m)

SpecHot == InitHot /\ [][NextHot]_vars

\* time.Now() moves on by an hour
Tick ==
    /\ now < MaxHours
    /\ now' = now + 1
    /\ UNCHANGED <<trackerVars, api, storeVars, env, batchVars, putOK, recorded,
                   lastRecent, replyVars, readers, lockVars>>

\* the ratings WriteRatingToHBase is called with: none is refused, 6.0 neither
AnyRatings == {10, 12}

\* The tracker under single writes as time passes
InitClock ==
    /\ InitState
    /\ batchSize = ScaledBatchSize
    /\ env = [movies |-> {"1"}, users |-> {"10001"}, ratings |-> AnyRatings,
              maxWrites |-> MaxWritesClock, genCounts |-> {}, restarts |-> FALSE,
              maxStarts |-> 0, statsOK |-> {TRUE},
              titlesOK |-> {TRUE}, replies |-> {}]

\* with GetRecentWrites: the order of the log
NextClock ==
    \/ SingleWrites
    \/ Recalculation
    \/ Tick
    \/ \E n \in Limits : GetRecentWrites(n)

SpecClock == InitClock /\ [][NextClock]_vars

\* with GetMovieHotness: the decay of the score
NextDecay ==
    \/ SingleWrites
    \/ Recalculation
    \/ Tick
    \/ \E m \in env.movies : GetMovieHotness(m)

InitDecay ==
    /\ InitState
    /\ batchSize = ScaledBatchSize
    /\ env = [movies |-> {"1"}, users |-> {"10001"}, ratings |-> AnyRatings,
              maxWrites |-> MaxWritesDecay, genCounts |-> {}, restarts |-> FALSE,
              maxStarts |-> 0, statsOK |-> {TRUE},
              titlesOK |-> {TRUE}, replies |-> {}]

SpecDecay == InitDecay /\ [][NextDecay]_vars

StatusQueries == \E m \in env.movies : GetMovieRatingThresholdStatus(m)

\* The tracker under single writes and GetMovieRatingThresholdStatus
InitStatus ==
    /\ InitState
    /\ batchSize = ScaledBatchSize
    /\ env = [movies |-> {"1", "3"}, users |-> {"10001"}, ratings |-> {10},
              maxWrites |-> MaxWritesStatus, genCounts |-> {}, restarts |-> FALSE,
              maxStarts |-> 0, statsOK |-> {TRUE},
              titlesOK |-> {TRUE}, replies |-> {"status"}]

NextStatus == SingleWrites \/ Recalculation \/ StatusQueries

SpecStatus == InitStatus /\ [][NextStatus]_vars

\* The tracker under single writes as time passes and GetWriteStats
InitStats ==
    /\ InitState
    /\ batchSize = ScaledBatchSize
    /\ env = [movies |-> {"3"}, users |-> {"10001"}, ratings |-> {10},
              maxWrites |-> MaxWritesStats, genCounts |-> {}, restarts |-> FALSE,
              maxStarts |-> 0, statsOK |-> {TRUE},
              titlesOK |-> {TRUE}, replies |-> {"stats"}]

NextStats == SingleWrites \/ Recalculation \/ Tick \/ GetWriteStats

SpecStats == InitStats /\ [][NextStats]_vars

\* The tracker under single writes and every query of the HotnessController
InitQueries ==
    /\ InitState
    /\ batchSize = ScaledBatchSize
    /\ env = [movies |-> {"1"}, users |-> {"10001"}, ratings |-> {10},
              maxWrites |-> MaxWritesQueries, genCounts |-> {}, restarts |-> FALSE,
              maxStarts |-> 0, statsOK |-> {TRUE},
              titlesOK |-> {TRUE}, replies |-> {}]

\* the movies the queries are called for: one that is written and one that never is
QueriedMovies == {"1", "2"}

Queries ==
    \/ TopQueries
    \/ \E m \in QueriedMovies : GetMovieHotness(m)
    \/ \E n \in Limits : GetRecentWrites(n)
    \/ GetWriteStats
    \/ \E m \in QueriedMovies : GetMovieRatingThresholdStatus(m)

NextQueries == SingleWrites \/ Recalculation \/ Queries

SpecQueries == InitQueries /\ [][NextQueries]_vars

Next == SingleWrites \/ Recalculation \/ StatusQueries

Spec == Init /\ [][Next]_vars

\* The tracker under single writes and GetRecentWrites: the write event log
InitLog ==
    /\ InitState
    /\ batchSize = ScaledBatchSize
    /\ env = [movies |-> {"2"}, users |-> {"10001"}, ratings |-> Ratings,
              maxWrites |-> MaxPutsLog, genCounts |-> {}, restarts |-> FALSE, maxStarts |-> 0, statsOK |-> BOOLEAN,
              titlesOK |-> BOOLEAN, replies |-> {}]

NextLog == SingleWrites \/ Recalculation \/ \E n \in Limits : GetRecentWrites(n)

SpecLog == InitLog /\ [][NextLog]_vars

Ingestion ==
    \/ StartRandomRatings
    \/ StopRandomRatings
    \/ \E t \in Tasks : TaskStopped(t)
    \/ \E t \in Tasks : TaskTimeout(t)
    \/ \E t \in Tasks : TaskTick(t)
    \/ \E t \in Tasks : TaskFlushTick(t)
    \/ \E t \in Tasks : generateBatchData(t)
    \/ \E t \in Flushers : flushBatch(t)
    \/ \E m \in env.movies : PartitionPutOk(m)
    \/ \E m \in env.movies : PartitionPutFail(m)
    \/ \E m \in env.movies : PartitionRecord(m)
    \/ FlushFinish

\* The batch ingestion buffer over the tracker, with single writes beside it
InitBatch ==
    /\ InitState
    /\ batchSize = ScaledBatchSize
    /\ env = [movies |-> {"2", "3"}, users |-> {"10001"}, ratings |-> {10},
              maxWrites |-> MaxWrites, genCounts |-> GenCounts,
              restarts |-> FALSE, maxStarts |-> 0, statsOK |-> {TRUE},
              titlesOK |-> {TRUE}, replies |-> {}]

NextBatch == Ingestion \/ SingleWrites \/ Recalculation

SpecBatch == InitBatch /\ [][NextBatch]_vars

\* The batch ingestion buffer alone, over one movie, with more items
InitBuffer ==
    /\ InitState
    /\ batchSize = ScaledBatchSize
    /\ env = [movies |-> {"4"}, users |-> {"10001"}, ratings |-> {10},
              maxWrites |-> MaxWritesBuffer, genCounts |-> GenCounts,
              restarts |-> TRUE, maxStarts |-> MaxStarts, statsOK |-> {TRUE},
              titlesOK |-> BOOLEAN, replies |-> {}]

\* no write of these behaviours reaches the threshold of the movie, so that no
\* recalculateMovieRating runs in them
NextBuffer == Ingestion

SpecBuffer == InitBuffer /\ [][NextBuffer]_vars

\* The same under the scheduling the Go runtime gives: a select picks among its ready
\* cases at random, so the flush ticker's case, ready again and again, is taken
\* (strong fairness); a goroutine that can run does run, and a called client.Put
\* returns (weak fairness).
FairBuffer ==
    /\ \A t \in Tasks : SF_vars(TaskFlushTick(t))
    /\ \A t \in Tasks : WF_vars(generateBatchData(t))
    /\ \A t \in Flushers : WF_vars(flushBatch(t))
    /\ \A m \in Movies : WF_vars(PartitionPutOk(m) \/ PartitionPutFail(m))
    /\ \A m \in Movies : WF_vars(PartitionRecord(m))
    /\ WF_vars(FlushFinish)

\* Low traffic: the ingestion appends one item at a time
InitDrip ==
    /\ InitState
    /\ batchSize = ScaledBatchSize
    /\ env = [movies |-> {"4"}, users |-> {"10001"}, ratings |-> {10},
              maxWrites |-> MaxWritesDrip, genCounts |-> {1},
              restarts |-> TRUE, maxStarts |-> MaxStartsDrip, statsOK |-> {TRUE},
              titlesOK |-> BOOLEAN, replies |-> {}]

SpecDripFair == InitDrip /\ [][NextBuffer]_vars /\ FairBuffer

(* ------------------------------------------------------------------ *)
(* TestController: tc.mu and tc.writesMu                               *)
(* ------------------------------------------------------------------ *)

\* Lock() of a sync.RWMutex returns when no writer and no reader holds it
LockFree(L) == tcLocks[L].w = "" /\ tcLocks[L].r = {}

\* the flush of thread t is past wg.Wait()
PastBarrier(t) ==
    /\ flush.owner = t
    /\ \A m \in DOMAIN flush.parts : flush.parts[m].pc = "done"

\* StartRandomRatings with its tc.mu.Lock() section and its addLog
LockedStart == LockFree("mu") /\ StartRandomRatings
\* the two returns of the select, with their addLog
LockedTaskStopped(t) == LockFree("mu") /\ TaskStopped(t)
LockedTaskTimeout(t) == LockFree("mu") /\ TaskTimeout(t)
\* flushBatch; the stop handler's addLog follows a flush of an empty buffer at once
LockedFlushBatch(t) ==
    /\ (t = "stop" /\ batchBuffer = <<>>) => LockFree("mu")
    /\ flushBatch(t)

\* flushBatchUnsafe: tc.mu.Lock() after the barrier
FlushLockMu ==
    /\ flush.owner # ""
    /\ pc[flush.owner] = "wait"
    /\ PastBarrier(flush.owner)
    /\ LockFree("mu")
    /\ tcLocks' = [tcLocks EXCEPT !["mu"].w = flush.owner]
    /\ pc' = [pc EXCEPT ![flush.owner] = "wmu"]
    /\ UNCHANGED <<watch, trackerVars, api, storeVars, now, env, isRunning, stopChan,
                   closedChans, batchSize, batchBuffer, batchMu, totalInserted,
                   errorCount, tcMovieStats, flush, enqueued, flushes, putOK,
                   recorded, lastRecent, replyVars, readers, plain, status>>

\* flushBatchUnsafe: tc.writesMu.Lock()
FlushLockWrites ==
    /\ flush.owner # ""
    /\ pc[flush.owner] = "wmu"
    /\ LockFree("writesMu")
    /\ tcLocks' = [tcLocks EXCEPT !["writesMu"].w = flush.owner]
    /\ pc' = [pc EXCEPT ![flush.owner] = "unlock"]
    /\ UNCHANGED <<watch, trackerVars, api, storeVars, now, env, isRunning, stopChan,
                   closedChans, batchSize, batchBuffer, batchMu, totalInserted,
                   errorCount, tcMovieStats, flush, enqueued, flushes, putOK,
                   recorded, lastRecent, replyVars, readers, plain, status>>

\* flushBatchUnsafe: tc.writesMu.Unlock() and tc.mu.Unlock()
FlushUnlock ==
    /\ flush.owner # ""
    /\ pc[flush.owner] = "unlock"
    /\ tcLocks' = [tcLocks EXCEPT !["mu"].w = "", !["writesMu"].w = ""]
    /\ pc' = [pc EXCEPT ![flush.owner] = "log"]
    /\ UNCHANGED <<watch, trackerVars, api, storeVars, now, env, isRunning, stopChan,
                   closedChans, batchSize, batchBuffer, batchMu, totalInserted,
                   errorCount, tcMovieStats, flush, enqueued, flushes, putOK,
                   recorded, lastRecent, replyVars, readers, plain, status>>

\* flushBatchUnsafe: addLog if successCount > 0, and the return; the stop handler's
\* own addLog follows
FlushLogReturn ==
    /\ flush.owner # ""
    /\ pc[flush.owner] = "log"
    /\ (flush.successCount > 0 \/ flush.owner = "stop") => LockFree("mu")
    /\ FlushFinish

\* the order in which GetRandomRatingsStatus and GetRandomRatingsLogs take the
\* read locks
StatusOrderReversed == <<"writesMu", "mu">>
StatusOrder == <<"mu", "writesMu">>

\* a request for the status or the logs arrives
StatusCall(s) ==
    /\ status[s] = "idle"
    /\ status' = [status EXCEPT ![s] = "first"]
    /\ UNCHANGED <<trackerVars, api, storeVars, now, env, batchVars, putOK, recorded,
                   lastRecent, replyVars, readers, plain, tcLocks>>

\* tc.mu.RLock(), then tc.writesMu.RLock()
StatusRLock(s) ==
    /\ status[s] \in {"first", "second"}
    /\ LET L == IF status[s] = "first" THEN StatusOrder[1] ELSE StatusOrder[2] IN
         /\ tcLocks[L].w = ""
         /\ tcLocks' = [tcLocks EXCEPT ![L].r = @ \cup {s}]
    /\ status' = [status EXCEPT ![s] = IF @ = "first" THEN "second" ELSE "read"]
    /\ UNCHANGED <<trackerVars, api, storeVars, now, env, batchVars, putOK, recorded,
                   lastRecent, replyVars, readers, plain>>

\* the response is built; tc.writesMu.RUnlock() and tc.mu.RUnlock()
StatusReturn(s) ==
    /\ status[s] = "read"
    /\ tcLocks' = [L \in DOMAIN tcLocks |-> [tcLocks[L] EXCEPT !.r = @ \ {s}]]
    /\ status' = [status EXCEPT ![s] = "idle"]
    /\ UNCHANGED <<trackerVars, api, storeVars, now, env, batchVars, putOK, recorded,
                   lastRecent, replyVars, readers, plain>>

\* The controller with its locks taken one by one, status and log requests, the
\* tracker's writers and readers and the recalculateMovieRating goroutines
InitLocks ==
    /\ InitState
    /\ batchSize = ScaledBatchSize
    /\ env = [movies |-> {"3"}, users |-> {"10001"}, ratings |-> {10},
              maxWrites |-> MaxWritesLocks, genCounts |-> GenCounts,
              restarts |-> FALSE, maxStarts |-> 0, statsOK |-> {TRUE},
              titlesOK |-> {TRUE}, replies |-> {}]

NextLocks ==
    \/ LockedStart
    \/ StopRandomRatings
    \/ \E t \in Tasks : LockedTaskStopped(t)
    \/ \E t \in Tasks : LockedTaskTimeout(t)
    \/ \E t \in Tasks : TaskTick(t)
    \/ \E t \in Tasks : TaskFlushTick(t)
    \/ \E t \in Tasks : generateBatchData(t)
    \/ \E t \in Flushers : LockedFlushBatch(t)
    \/ \E m \in env.movies : PartitionPutOk(m)
    \/ \E m \in env.movies : PartitionPutFail(m)
    \/ \E m \in env.movies : PartitionRecord(m)
    \/ FlushLockMu
    \/ FlushLockWrites
    \/ FlushUnlock
    \/ FlushLogReturn
    \/ \E s \in StatusCallers : StatusCall(s)
    \/ \E s \in StatusCallers : StatusRLock(s)
    \/ \E s \in StatusCallers : StatusReturn(s)
    \/ Recalculation
    \/ \E m \in env.movies : ReaderBeginOne("r1", m)
    \/ ReaderBeginTop("r1")
    \/ ReaderScore("r1")
    \/ ReaderCheck("r1")
    \/ ReaderWrite("r1")

SpecLocks == InitLocks /\ [][NextLocks]_vars

\* Single writes, their recalculateMovieRating goroutines, and hotness queries
InitReaders ==
    /\ InitState
    /\ batchSize = DefaultBatchSize
    /\ env = [movies |-> {"1", "2"}, users |-> {"10001"}, ratings |-> {10},
              maxWrites |-> MaxWritesReaders, genCounts |-> GenCounts,
              restarts |-> FALSE, maxStarts |-> 0, statsOK |-> {TRUE},
              titlesOK |-> {TRUE}, replies |-> {}]

NextReaders == SingleWrites \/ Recalculation \/ HotnessQueries

SpecReaders == InitReaders /\ [][NextReaders]_vars

\* One movie with ratings that differ, flushed in batches, its fourth write reaching
\* the threshold
InitAvg ==
    /\ InitState
    /\ batchSize = ScaledBatchSize
    /\ env = [movies |-> {"2"}, users |-> {"10001"}, ratings |-> Ratings,
              maxWrites |-> MaxWritesAvg, genCounts |-> GenCounts,
              restarts |-> FALSE, maxStarts |-> 0, statsOK |-> {TRUE},
              titlesOK |-> {TRUE}, replies |-> {}]

NextAvg == Ingestion \/ Recalculation

SpecAvg == InitAvg /\ [][NextAvg]_vars

\* One movie whose third write reaches its threshold, flushed in batches, and its
\* recalculateMovieRating goroutines
InitDispatch ==
    /\ InitState
    /\ batchSize = ScaledBatchSize
    /\ env = [movies |-> {"3"}, users |-> {"10001"}, ratings |-> {10},
              maxWrites |-> MaxWritesDispatch, genCounts |-> GenCounts,
              restarts |-> FALSE, maxStarts |-> 0, statsOK |-> {TRUE},
              titlesOK |-> {TRUE}, replies |-> {}]

NextDispatch == Ingestion \/ Recalculation

\* A goroutine of a flush that can run does run and a called client.Put returns, and
\* so does a recalculateMovieRating that holds rts.mu, whose three assignments call
\* nothing; the Get, the Put and the Lock of a recalculateMovieRating may take
\* for ever.
FairDispatch ==
    /\ \A m \in Movies : WF_vars(PartitionPutOk(m) \/ PartitionPutFail(m))
    /\ \A m \in Movies : WF_vars(PartitionRecord(m))
    /\ WF_vars(FlushFinish)
    /\ \A i \in Slots : WF_vars(RecalcSetCount(i))
    /\ \A i \in Slots : WF_vars(RecalcSetPending(i))
    /\ \A i \in Slots : WF_vars(RecalcSetAvg(i))

SpecDispatchFair == InitDispatch /\ [][NextDispatch]_vars /\ FairDispatch

(* ------------------------------------------------------------------ *)
(* Properties of the recalculation coordinator (Spec)                  *)
(* ------------------------------------------------------------------ *)

WriteCountOf(stats, m) == IF m \in DOMAIN stats THEN stats[m].WriteCount ELSE 0
PendingOf(stats, m) == IF m \in DOMAIN stats THEN stats[m].NewWritesSinceCalc ELSE 0
InFlight(tasks, m) ==
    Cardinality({i \in Slots : tasks[i].pc # "idle" /\ tasks[i].movieID = m})
MaxOf(a, b) == IF a >= b THEN a ELSE b
\* max(1, floor(0.1 * count)) for a count >= 0
StalenessThreshold(count) == MaxOf(1, count \div 10)
\* the step is a recorded write for m
RecordedWrite(m) == WriteCountOf(movieStats', m) = WriteCountOf(movieStats, m) + 1
\* goroutine i has changed some of the three fields and not yet all of them
MidUpdate(i) == recalc[i].pc \in {"set_pending", "set_avg"}
\* the step is goroutine i ending in its scan or its persist step
FailedRecalc(i) == recalc[i].pc \in {"scan", "store"} /\ recalc'[i].pc = "idle"

\* no flush and no single write is in progress
Quiescent == api = NoRequest /\ flush.owner = ""

\* C1: For each movie the tracker's WriteCount never exceeds the number of items whose
\* Put succeeded (in a batch flush or a single write), so an item whose Put failed
\* never increments it, and in every quiescent state the two are equal.
C1_WriteCountIsSuccesses ==
    \A m \in Movies :
        /\ WriteCountOf(movieStats, m) <= putOK[m]
        /\ Quiescent => WriteCountOf(movieStats, m) = putOK[m]

\* a quiescent state after a flush with a failed partition and a successful one, and
\* a single write
C1_Witness ==
    /\ Quiescent
    /\ errorCount > 0
    /\ totalInserted > 0
    /\ \E j \in 1..Len(recorded) : recorded[j].Source = "api"
    /\ \E m \in Movies :
         /\ WriteCountOf(movieStats, m) > 0
         /\ m \in DOMAIN tcMovieStats
         /\ tcMovieStats[m] > WriteCountOf(movieStats, m)

\* C2: a recorded write dispatches one recomputation for its movie exactly when,
\* after its own update, NewWritesSinceCalc >= max(1, floor(0.1 * LastRatingCount)),
\* and none otherwise; with LastRatingCount = 40 that is from 4 on, with 0 from 1 on.
C2_DispatchIffThreshold ==
    [][\A m \in Movies :
         RecordedWrite(m) =>
           LET h == movieStats'[m]
               dispatched == InFlight(recalc', m) - InFlight(recalc, m)
           IN  /\ dispatched \in {0, 1}
               /\ dispatched = 1 <=>
                    h.NewWritesSinceCalc >= StalenessThreshold(h.LastRatingCount)
               /\ h.LastRatingCount = 40 => (dispatched = 1 <=> h.NewWritesSinceCalc >= 4)
               /\ h.LastRatingCount = 0 => dispatched = 1
               /\ \A o \in Movies \ {m} : InFlight(recalc', o) = InFlight(recalc, o)]_vars

\* the fourth write to a movie whose aggregate counts 40 ratings has dispatched the
\* first recomputation of it
C2_Witness ==
    /\ "2" \in DOMAIN movieStats
    /\ movieStats["2"].LastRatingCount = 40
    /\ movieStats["2"].WriteCount = 4
    /\ movieStats["2"].NewWritesSinceCalc = 4
    /\ InFlight(recalc, "2") = 1

\* C3: NewWritesSinceCalc of a movie changes in two ways only: a recorded write for
\* that movie adds exactly 1, and a recomputation of that movie that has scanned and
\* persisted sets it to 0 under the lock; every other step leaves it alone.
C3_PendingChanges ==
    [][\A m \in Movies :
         LET p == PendingOf(movieStats, m)
             q == PendingOf(movieStats', m)
         IN  /\ RecordedWrite(m) => q = p + 1
             /\ ~RecordedWrite(m) /\ q # p =>
                  /\ q = 0
                  /\ \E i \in Slots : /\ rtsMu = i
                                      /\ recalc[i].movieID = m
                                      /\ recalc[i].pc = "set_pending"
             /\ (\E i \in Slots : FailedRecalc(i)) => q = p]_vars

\* a recomputation has reset the count of a movie written twice, and a later write
\* has counted from 0 again
C3_Witness ==
    \E m \in DOMAIN movieStats :
        /\ movieStats[m].WriteCount = 3
        /\ movieStats[m].NewWritesSinceCalc = 1

\* C4: a recomputation that fails in its scan or its persist step ends there: the
\* tracker's records and log are as before, the goroutine is gone and nothing new is
\* dispatched; and a write to a movie whose count had met the threshold and was not
\* reset meets it again and dispatches.
C4_FailedRecalcLeavesRecord ==
    [][/\ \A i \in Slots :
            FailedRecalc(i) =>
              /\ movieStats' = movieStats
              /\ writeRecords' = writeRecords
              /\ recalc' = [recalc EXCEPT ![i] = IdleTask]
       /\ \A m \in DOMAIN movieStats :
            /\ RecordedWrite(m)
            /\ movieStats[m].NewWritesSinceCalc
                 >= StalenessThreshold(movieStats[m].LastRatingCount)
            => /\ movieStats'[m].LastRatingCount = movieStats[m].LastRatingCount
               /\ InFlight(recalc', m) = InFlight(recalc, m) + 1]_vars

\* the first recomputation of a movie has failed (its count is not reset and it is
\* gone), and the second write has dispatched another
C4_Witness ==
    /\ "1" \in DOMAIN movieStats
    /\ movieStats["1"].WriteCount = 2
    /\ movieStats["1"].NewWritesSinceCalc = 2
    /\ InFlight(recalc, "1") = 1
    /\ \E i \in Slots : recalc[i].movieID = "1" /\ recalc[i].pc = "scan"

\* the tracker operations that read or write records under rts.mu
TrackerOperation ==
    \/ ApiRecord
    \/ \E m \in Movies : GetMovieRatingThresholdStatus(m)
    \/ \E m \in Movies : GetMovieHotness(m)
    \/ \E n \in Limits : GetRecentWrites(n)
    \/ \E j \in Slots : RecalcLock(j)

\* C5: while a recomputation has changed some of LastRatingCount, NewWritesSinceCalc
\* and AvgRating and not yet all three, it holds rts.mu and no tracker operation
\* (a write, a hotness, status or log query, another recomputation's update) can run.
C5_AtomicUpdate ==
    \A i \in Slots :
        MidUpdate(i) => /\ rtsMu = i
                        /\ ~ENABLED TrackerOperation

\* a write is waiting for the lock while a recomputation is between its assignments
C5_Witness ==
    /\ api.pc = "record"
    /\ \E i \in Slots : MidUpdate(i) /\ recalc[i].movieID = api.movieID

\* C6: no guard keeps recomputations of one movie apart: a write recorded while a
\* recomputation of its movie is alive, and whose count meets the threshold,
\* dispatches a further one.
C6_OverlapNotPrevented ==
    [][\A m \in Movies :
         /\ RecordedWrite(m)
         /\ InFlight(recalc, m) >= 1
         /\ movieStats'[m].NewWritesSinceCalc
              >= StalenessThreshold(movieStats'[m].LastRatingCount)
         => InFlight(recalc', m) = InFlight(recalc, m) + 1]_vars

\* two recomputations of one movie are alive
C6_Witness == \E m \in Movies : InFlight(recalc, m) >= 2

(* ------------------------------------------------------------------ *)
(* Properties of the write event log (SpecLog)                         *)
(* ------------------------------------------------------------------ *)

MinOf(a, b) == IF a <= b THEN a ELSE b
\* the last k elements of s, in order
LastK(s, k) == [j \in 1..k |-> s[Len(s) - k + j]]
\* what the log holds when n records have been appended to it
LogAfter(n) == LastK(SubSeq(recorded, 1, n), MinOf(maxRecords, n))

\* C7: the log never holds more than maxRecords records, and holds exactly the last
\* min(maxRecords, appended) of the appended ones in their order; a GetRecentWrites
\* with a limit above the capacity returns exactly those.
C7_LogKeepsMostRecent ==
    /\ Len(writeRecords) <= maxRecords
    /\ writeRecords = LastK(recorded, MinOf(maxRecords, Len(recorded)))
    /\ RecentWrites(writeRecords, 10) = LogAfter(Len(recorded))

\* one record more than the capacity was appended, the oldest differs from its
\* successor, and GetRecentWrites(10) has returned all but the oldest
C7_Witness ==
    /\ Len(recorded) = maxRecords + 1
    /\ recorded[1] # recorded[2]
    /\ lastRecent.limit = 10
    /\ lastRecent.at = Len(recorded)
    /\ lastRecent.result = Tail(recorded)

\* C8: what GetRecentWrites(n) returned is the last n records the log held when it
\* was called (all of them when it held fewer, or n <= 0), and stays that whatever
\* is appended or evicted afterwards.
C8_RecentIsSnapshot ==
    LET held == LogAfter(lastRecent.at)
        k == IF lastRecent.limit > 0
             THEN MinOf(lastRecent.limit, Len(held))
             ELSE Len(held)
    IN  lastRecent.result = LastK(held, k)

\* GetRecentWrites(2) returned two records of a full log, and a later write has
\* evicted from the log and changed its last two
C8_Witness ==
    /\ lastRecent.limit = 2
    /\ lastRecent.at = maxRecords
    /\ Len(recorded) = maxRecords + 1
    /\ lastRecent.result = SubSeq(recorded, maxRecords - 1, maxRecords)
    /\ lastRecent.result # RecentWrites(writeRecords, 2)

\* the most items one generateBatchData call appends
GenMost == CHOOSE k \in GenCounts : \A j \in GenCounts : j <= k
\* the first run of the ingestion task, no flush by the flush ticker or the stop
\* handler so far
NoTimerFire == stopChan = 1 /\ flushes.timer = 0 /\ flushes.stop = 0
\* with batches of least..most items and flushes at size or more, f flushes and p
\* items pending can be what n enqueued items leave
Leaves(n, size, most, f, p) ==
    /\ p < size
    /\ f * size <= n - p
    /\ n - p <= f * (size + most - 1)

\* the same for batchSize 50, enqueues of 5 to 10 items and 123 items enqueued: a fact
\* of arithmetic, evaluated once, where nothing is enqueued yet
LiteralExample ==
    \A f \in 0..(123 \div DefaultBatchSize) : \A p \in 0..(DefaultBatchSize - 1) :
        Leaves(123, DefaultBatchSize, 10, f, p) => f >= 2 /\ p <= 23

\* C9: A buffer of batchSize items or more is there only under the batch lock, with
\* a flush of the whole of it in progress (the enqueue step that filled it started
\* the flush and holds the lock), so the buffer is shorter than batchSize whenever the
\* lock is free. With no flush by timer or stop, each flush takes batchSize items or more and
\* fewer than batchSize + the most one enqueue adds; so 2 * batchSize + that - 1
\* items give two flushes at least, and with batchSize 50 and enqueues of 5 to 10
\* items, 123 items leave two flushes or more and 23 items or fewer pending.
C9_SizeFlushUnderLock ==
    /\ batchMu = "" => Len(batchBuffer) < batchSize
    /\ Len(batchBuffer) >= batchSize
       => (batchMu # "" /\ flush.owner = batchMu /\ flush.items = batchBuffer)
    /\ (NoTimerFire /\ batchMu = "")
       => /\ Leaves(enqueued, batchSize, GenMost, flushes.size, Len(batchBuffer))
          /\ (enqueued >= 2 * batchSize + GenMost - 1)
             => (/\ flushes.size >= 2
                 /\ Len(batchBuffer) <= enqueued - 2 * batchSize)
    /\ enqueued = 0 => LiteralExample

\* five items were enqueued with no timer fire: two flushes by size, one item pending
C9_Witness ==
    /\ NoTimerFire
    /\ batchMu = ""
    /\ enqueued = 2 * batchSize + GenMost - 1
    /\ flushes.size = 2
    /\ Len(batchBuffer) = 1

EntitiesOf(items) == {items[j].MovieID : j \in 1..Len(items)}
\* the step starts a flush
FlushBegins == flush.owner = "" /\ flush'.owner # ""
\* the step is the flush's return from wg.Wait() to its counters
FlushReturns == flush.owner # "" /\ flush'.owner = ""

\* C11: A flush starts one partition goroutine for each movie of the buffer, all of
\* them before any writes; a partition's Put is issued once and covers all the items
\* of its movie in the buffer; the flush reads the two counts when every partition
\* is done, and they add up to the number of items flushed.
C11_OnePartitionPerEntity ==
    [][/\ FlushBegins
          => /\ flush'.items = batchBuffer'
             /\ DOMAIN flush'.parts = EntitiesOf(batchBuffer')
             /\ \A m \in DOMAIN flush'.parts : flush'.parts[m].pc = "put"
       /\ (flush.owner # "" /\ flush'.owner # "")
          => /\ flush'.items = flush.items
             /\ DOMAIN flush'.parts = DOMAIN flush.parts
             /\ \A m \in DOMAIN flush.parts :
                  /\ flush'.parts[m].pc = "put" => flush.parts[m].pc = "put"
                  /\ (flush.parts[m].pc = "put" /\ flush'.parts[m].pc = "record")
                     => putOK'[m] - putOK[m] =
                          Cardinality({j \in 1..Len(flush.items) :
                                         flush.items[j].MovieID = m})
       /\ FlushReturns
          => /\ \A m \in DOMAIN flush.parts : flush.parts[m].pc = "done"
             /\ flush.successCount + flush.errorCount = Len(flush.items)
             /\ totalInserted' = totalInserted + flush.successCount
             /\ errorCount' = errorCount + flush.errorCount]_vars

\* a flush of two movies is back from wg.Wait(), one partition failed and one written
C11_Witness ==
    /\ flush.owner # ""
    /\ Cardinality(DOMAIN flush.parts) = 2
    /\ \A m \in DOMAIN flush.parts : flush.parts[m].pc = "done"
    /\ flush.successCount > 0
    /\ flush.errorCount > 0
    /\ Len(flush.items) > 2

\* the step appends a record of a generated item to the log
RecordsBatchItem ==
    /\ Len(recorded') = Len(recorded) + 1
    /\ recorded'[Len(recorded')].Source = "test_batch"

\* C12 as stated: an item of a flush is recorded only when every other partition
\* of the flush has completed, never while another partition's Put is still to come.
C12_RecordedAfterBarrier ==
    [][RecordsBatchItem
         => \A m \in DOMAIN flush.parts :
              m # recorded'[Len(recorded')].MovieID => flush.parts[m].pc = "done"]_vars

\* C12 (amended): an item of a flush is recorded inside the partition task of its
\* movie, after that partition's Put succeeded and before the task completes, other
\* partitions being at any point of their work; the flush returns from the barrier,
\* and clears the buffer, only when all partitions are done, so no item is recorded
\* outside a flush.
C12_RecordedInsidePartition ==
    [][/\ RecordsBatchItem
          => LET m == recorded'[Len(recorded')].MovieID IN
               /\ flush.owner # "" /\ flush'.owner = flush.owner
               /\ m \in DOMAIN flush.parts
               /\ flush.parts[m].pc = "record"
               /\ putOK[m] >= Len(MovieGroup(flush.items, m))
               /\ batchBuffer' = batchBuffer /\ batchBuffer = flush.items
               /\ \A k \in DOMAIN flush.parts \ {m} : flush'.parts[k] = flush.parts[k]
       /\ FlushReturns
          => /\ \A m \in DOMAIN flush.parts : flush.parts[m].pc = "done"
             /\ recorded' = recorded
             /\ batchBuffer' = <<>>]_vars

\* an item of one partition is recorded while the Put of another partition of the
\* same flush has not been issued
C12_Witness ==
    /\ flush.owner # ""
    /\ \E m, k \in DOMAIN flush.parts :
         /\ flush.parts[m].pc = "record" /\ flush.parts[m].next > 1
         /\ flush.parts[k].pc = "put"
         /\ \E j \in 1..Len(recorded) :
              recorded[j].Source = "test_batch" /\ recorded[j].MovieID = m

\* the generated items of movie m in the log
BatchRecorded(m) ==
    Cardinality({j \in 1..Len(recorded) :
                   recorded[j].Source = "test_batch" /\ recorded[j].MovieID = m})
\* the single writes of movie m whose Put succeeded
ApiPut(m) ==
    Cardinality({j \in 1..Len(recorded) :
                   recorded[j].Source = "api" /\ recorded[j].MovieID = m})
    + (IF api.pc = "record" /\ api.movieID = m THEN 1 ELSE 0)
\* the items of movie m written by a partition that has not recorded them yet
Unrecorded(m) ==
    IF flush.owner # "" /\ m \in DOMAIN flush.parts /\ flush.parts[m].pc = "record"
    THEN Len(MovieGroup(flush.items, m)) - (flush.parts[m].next - 1)
    ELSE 0
\* the step is the failure of the Put of partition m
PartitionFails(m) ==
    /\ flush.owner # "" /\ flush'.owner # ""
    /\ m \in DOMAIN flush.parts
    /\ flush.parts[m].pc = "put" /\ flush'.parts[m].pc = "done"
\* the step is the return of partition m after its last RecordRatingWrite
PartitionSucceeds(m) ==
    /\ flush.owner # "" /\ flush'.owner # ""
    /\ m \in DOMAIN flush.parts
    /\ flush.parts[m].pc = "record" /\ flush'.parts[m].pc = "done"

\* C13: The items of a partition whose Put fails are counted as errors, one each,
\* and are not recorded in movieStats or the log; the items of a partition whose Put
\* succeeds are counted as inserted, one each, and recorded once each; every item
\* generated is counted once, as inserted or as an error, when its flush returns, and
\* the buffer is empty then, so no item is flushed twice.
C13_PartialFailure ==
    /\ [](\A m \in Movies : putOK[m] = ApiPut(m) + BatchRecorded(m) + Unrecorded(m))
    /\ [](totalInserted + errorCount + Len(batchBuffer) = enqueued)
    /\ [][/\ \A m \in Movies :
               /\ PartitionFails(m)
                  => /\ flush'.errorCount =
                          flush.errorCount + Len(MovieGroup(flush.items, m))
                     /\ flush'.successCount = flush.successCount
                     /\ UNCHANGED <<recorded, writeRecords, movieStats, batchBuffer,
                                    ratingsRow>>
               /\ PartitionSucceeds(m)
                  => /\ flush'.successCount =
                          flush.successCount + Len(MovieGroup(flush.items, m))
                     /\ flush'.errorCount = flush.errorCount
                     /\ flush.parts[m].next = Len(MovieGroup(flush.items, m))
          /\ FlushReturns
             => /\ batchBuffer' = <<>>
                /\ totalInserted' = totalInserted + flush.successCount
                /\ errorCount' = errorCount + flush.errorCount
                /\ flush.successCount + flush.errorCount = Len(batchBuffer)]_vars

\* a flush has returned with one partition failed and one recorded, the two
\* counters hold its items and the buffer is empty
C13_Witness ==
    /\ flush.owner = ""
    /\ batchBuffer = <<>>
    /\ totalInserted > 0
    /\ errorCount > 1
    /\ \E m \in Movies : BatchRecorded(m) = totalInserted
    /\ \E m \in Movies : m \in DOMAIN tcMovieStats /\ BatchRecorded(m) = 0

\* the run started last was ended by StopRandomRatings, the stop handler has
\* returned and no ingestion goroutine is left
StoppedAndExited ==
    /\ stopChan > 0
    /\ stopChan \in closedChans
    /\ isRunning = 0
    /\ \A t \in Flushers : pc[t] = "off"

\* C14: once StopRandomRatings has returned and the ingestion goroutine has exited,
\* the batch buffer is empty: nothing was appended after the flush of the stop
\* handler.
C14_BufferEmptyAfterStop == StoppedAndExited => batchBuffer = <<>>

\* the run started last was ended by the timeout of its goroutine, and no thread
\* of the controller is left
TimedOutAndExited ==
    /\ stopChan > 0
    /\ stopChan \notin closedChans
    /\ isRunning = 0
    /\ \A t \in Flushers : pc[t] = "off"

\* C15: once the ingestion goroutine has exited on its 5-minute timeout, the batch
\* buffer is empty: the goroutine has flushed what was buffered before it returned.
C15_BufferEmptyAfterDeadline == TimedOutAndExited => batchBuffer = <<>>

\* the step is a recorded write that starts a recalculateMovieRating goroutine
Dispatches(i) == recalc[i].pc = "idle" /\ recalc'[i].pc = "scan"

\* C16: A flush in progress returns even if the recalculateMovieRating goroutines
\* its writes have started never get past their Get, their Put or their Lock; the
\* write that starts a goroutine completes in the same step as the go statement,
\* with the goroutine's work still to do, and its partition moves on.
C16_WritesNeverWaitForRecalc ==
    /\ (flush.owner # "") ~> (flush.owner = "")
    /\ [][\A i \in Slots :
            Dispatches(i)
              => /\ RecordsBatchItem
                 /\ rtsMu' = rtsMu
                 /\ LET m == recalc'[i].movieID IN
                      /\ WriteCountOf(movieStats', m) = WriteCountOf(movieStats, m) + 1
                      /\ flush'.parts[m] # flush.parts[m]]_vars

\* a flush has returned, its items counted, while a recalculateMovieRating started
\* by one of its writes has not done its Get
C16_Witness ==
    /\ flush.owner = ""
    /\ batchBuffer = <<>>
    /\ totalInserted >= 3
    /\ \E i \in Slots : recalc[i].pc = "scan" /\ recalc[i].movieID = "3"
    /\ PendingOf(movieStats, "3") >= 3

\* goroutine t has called generateBatchData and waits in tc.batchMu.Lock()
EnqueueWaits(t) == pc[t] = "gen" /\ batchMu \notin {"", t}
\* the holder of tc.batchMu is in a flush one of whose partitions has its Put or
\* its RecordRatingWrite calls to do
HolderWritesOrScores ==
    /\ flush.owner = batchMu
    /\ \E m \in DOMAIN flush.parts : flush.parts[m].pc \in {"put", "record"}
\* the same, a RecordRatingWrite of the flush waiting for rts.mu, which a
\* recalculateMovieRating holds
HolderWaitsForTracker ==
    /\ flush.owner = batchMu
    /\ rtsMu # 0
    /\ \E m \in DOMAIN flush.parts : flush.parts[m].pc = "record"

\* C17: a goroutine that waits for tc.batchMu in order to append to the buffer is
\* never behind a holder that is doing Puts or RecordRatingWrite calls, nor behind
\* one that waits for rts.mu.
C17_EnqueueWaitsForBatchLockOnly ==
    \A t \in Tasks :
        EnqueueWaits(t) => ~HolderWritesOrScores /\ ~HolderWaitsForTracker

\* request r is about to assign HotnessScore, or Title, of the record of movie m
ReaderWrites(r, m) ==
    \/ readers[r].pc = "score" /\ m \in readers[r].score
    \/ readers[r].pc = "write" /\ readers[r].cur = m
\* goroutine i is assigning the three fields of the record of movie m
RecalcWrites(i, m) ==
    recalc[i].pc \in {"set_count", "set_pending", "set_avg"} /\ recalc[i].movieID = m

\* C18: at no time are two threads assigning fields of one MovieHotness record:
\* requests refreshing its score or its title, and recalculateMovieRating
\* goroutines storing their result (RecordRatingWrite is one step under rts.mu).
C18_MutationsSerialized ==
    \A m \in Movies :
        Cardinality({r \in Readers : ReaderWrites(r, m)})
          + Cardinality({i \in Slots : RecalcWrites(i, m)}) <= 1

\* The threads that may wait for one another: the flushers, the partition
\* goroutines (by movie), the recalculateMovieRating goroutines, the single write,
\* the hotness requests and the status requests
SlotName(i) == IF i = 1 THEN "c1" ELSE "c2"
Threads ==
    Flushers \cup Movies \cup {SlotName(i) : i \in Slots} \cup {"api"}
             \cup Readers \cup StatusCallers
\* the threads that hold a lock of the controller
Holders(L) == (IF tcLocks[L].w # "" THEN {tcLocks[L].w} ELSE {}) \cup tcLocks[L].r
\* the flushers that have called, or are about to call, Lock() on it: an RLock()
\* called after a Lock() waits for that writer
Pending(L) ==
    IF L = "mu"
    THEN {t \in Flushers : \/ pc[t] = "wait" /\ PastBarrier(t)
                           \/ pc[t] = "log" /\ flush.successCount > 0}
    ELSE {t \in Flushers : pc[t] = "wmu"}
\* the threads that hold rts.mu, for writing or for reading
TrackerHolders ==
    (IF rtsMu # 0 THEN {SlotName(rtsMu)} ELSE {})
        \cup {r \in Readers : readers[r].pc # "idle"}
\* the threads that have to take a step before thread x can take its next one
Needs(x) ==
    IF x \in Flushers THEN
        IF pc[x] \in {"gen", "flush"} THEN {t \in Flushers : t = batchMu}
        ELSE IF pc[x] = "wait" /\ flush.owner = x THEN
            IF PastBarrier(x) THEN Holders("mu")
            ELSE {m \in DOMAIN flush.parts : flush.parts[m].pc # "done"}
        ELSE IF pc[x] = "wmu" THEN Holders("writesMu")
        ELSE IF pc[x] = "log" /\ flush.successCount > 0 THEN Holders("mu")
        ELSE {}
    ELSE IF x \in Movies THEN
        IF flush.owner # "" /\ x \in DOMAIN flush.parts /\ flush.parts[x].pc = "record"
        THEN TrackerHolders ELSE {}
    ELSE IF x \in {SlotName(i) : i \in Slots} THEN
        IF \E i \in Slots : SlotName(i) = x /\ recalc[i].pc = "lock"
        THEN TrackerHolders ELSE {}
    ELSE IF x = "api" THEN
        IF api.pc = "record" THEN TrackerHolders ELSE {}
    ELSE IF x \in StatusCallers THEN
        IF status[x] = "first"
        THEN {t \in Flushers : t = tcLocks[StatusOrder[1]].w} \cup Pending(StatusOrder[1])
        ELSE IF status[x] = "second"
        THEN {t \in Flushers : t = tcLocks[StatusOrder[2]].w} \cup Pending(StatusOrder[2])
        ELSE {}
    ELSE {}
\* the threads x waits for, directly or through others
RECURSIVE WaitsFor(_)
WaitsFor(S) ==
    LET T == S \cup UNION {Needs(y) : y \in S}
    IN  IF T = S THEN S ELSE WaitsFor(T)

\* C19: no thread waits for itself through tc.batchMu, tc.mu, tc.writesMu, rts.mu and
\* the barrier of a flush: in every reachable state the threads that wait can be
\* served in some order, so no set of them is blocked for ever.
C19_NoDeadlock == \A x \in Threads : x \notin WaitsFor(Needs(x))

\* all four locks are waited for at once: the stop handler for tc.batchMu, held by
\* the goroutine's flush, which waits for tc.mu, read-locked by a status request that
\* waits for nothing, and a recalculateMovieRating for rts.mu, held by a hotness
\* request
C19_Witness ==
    /\ pc["stop"] = "flush"
    /\ batchMu = "task1"
    /\ pc["task1"] = "wait" /\ PastBarrier("task1")
    /\ tcLocks["mu"].r # {}
    /\ tcLocks["writesMu"].r # {}
    /\ rtsMu = 0
    /\ \E i \in Slots : recalc[i].pc = "lock"
    /\ readers["r1"].pc # "idle"

\* the ratings of the generated items of movie m in the log, in order
RECURSIVE RatingsIn(_, _)
RatingsIn(records, m) ==
    IF records = <<>> THEN <<>>
    ELSE LET rest == RatingsIn(SubSeq(records, 1, Len(records) - 1), m)
             last == records[Len(records)]
         IN  IF last.MovieID = m THEN Append(rest, last.Rating) ELSE rest
\* the recurrence a1 = v1, ai = (a(i-1) + vi) / 2
RECURSIVE EMA(_)
EMA(vs) ==
    IF Len(vs) = 1 THEN Frac(vs[1], 1)
    ELSE LET a == EMA(SubSeq(vs, 1, Len(vs) - 1))
         IN  Frac(a[1] + vs[Len(vs)] * a[2], 2 * a[2])
\* the record of a movie after the writes vs, none of them followed by a completed
\* recalculateMovieRating
RECURSIVE AfterWrites(_, _)
AfterWrites(movieID, vs) ==
    IF Len(vs) = 1 THEN calculateHotnessScore(NewHotness(movieID, vs[1], 0, 0), 0)
    ELSE calculateHotnessScore(
             UpdateHotness(AfterWrites(movieID, SubSeq(vs, 1, Len(vs) - 1)),
                           vs[Len(vs)], 0), 0)
\* ten writes of 5, 5, 5, 4, 5, 5, 4, 5, 5, 5 stars to movie 7, the only one tracked
TenWrites == <<10, 10, 10, 8, 10, 10, 8, 10, 10, 10>>
TenWritesExample ==
    LET stats == [m \in {"7"} |-> AfterWrites("7", TenWrites)] IN
      /\ stats["7"].WriteCount = 10
      /\ stats["7"].AvgRating = EMA(TenWrites)
      /\ stats["7"].AvgRating = <<631, 64>>
      /\ HotMovies(stats, 1) = {<<"7">>}

\* C20 as stated: the AvgRating of a tracked movie is the recurrence over the ratings
\* of its recorded writes, in every state.
C20_AvgIsEMA ==
    \A m \in DOMAIN movieStats :
        movieStats[m].AvgRating = EMA(RatingsIn(recorded, m))

\* C20 (amended): as long as no recalculateMovieRating of the movie has stored its
\* result (NewWritesSinceCalc still equals WriteCount), AvgRating is the recurrence
\* over the ratings recorded, in order; a recorded write replaces AvgRating by
\* (AvgRating + rating) / 2 whatever it was, and the only other change of AvgRating is
\* a recalculateMovieRating storing the mean it has computed. The ten writes of the
\* example give WriteCount 10, AvgRating 631/128 stars, and GetHotMovies(1) = "7".
C20_AvgIsEMAUntilRecalc ==
    /\ [](\A m \in DOMAIN movieStats :
            movieStats[m].NewWritesSinceCalc = movieStats[m].WriteCount
              => movieStats[m].AvgRating = EMA(RatingsIn(recorded, m)))
    /\ [](recorded = <<>> => TenWritesExample)
    /\ [][\A m \in DOMAIN movieStats :
            LET a == movieStats[m].AvgRating IN
              /\ RecordedWrite(m)
                 => movieStats'[m].AvgRating =
                      Frac(a[1] + recorded'[Len(recorded')].Rating * a[2], 2 * a[2])
              /\ (~RecordedWrite(m) /\ movieStats'[m].AvgRating # a)
                 => \E i \in Slots :
                      /\ recalc[i].pc = "set_avg" /\ recalc[i].movieID = m
                      /\ movieStats'[m].AvgRating = recalc[i].avg]_vars

\* flushes have recorded three writes of ratings that differ, in an order in which
\* the recurrence is not their mean, and no recalculateMovieRating has run
C20_Witness ==
    /\ flush.owner = ""
    /\ batchBuffer = <<>>
    /\ "2" \in DOMAIN movieStats
    /\ movieStats["2"].WriteCount = 3
    /\ movieStats["2"].NewWritesSinceCalc = 3
    /\ RatingsIn(recorded, "2") = <<10, 6, 6>>
    /\ movieStats["2"].AvgRating = <<7, 1>>

\* the step creates the record of movie m
FirstWrite(m) == m \notin DOMAIN movieStats /\ m \in DOMAIN movieStats'

\* C21: The first recorded write of a movie creates its record with WriteCount 1,
\* NewWritesSinceCalc 1, AvgRating the rating written and LastRatingCount the
\* rating_count of the movie's stats row, or 0 when GetMovieStats fails or the row
\* has no count; in both cases the write is appended to the log.
C21_FirstWriteSeedsRecord ==
    [][\A m \in Movies :
         FirstWrite(m)
           => LET h == movieStats'[m]
                  w == recorded'[Len(recorded')]
              IN  /\ Len(recorded') = Len(recorded) + 1
                  /\ w.MovieID = m
                  /\ writeRecords'[Len(writeRecords')] = w
                  /\ h.MovieID = m
                  /\ h.WriteCount = 1
                  /\ h.NewWritesSinceCalc = 1
                  /\ h.AvgRating = <<w.Rating, 1>>
                  /\ h.LastWrite = now
                  /\ h.LastRatingCount \in
                       {0} \cup {statsRow[k].count : k \in DOMAIN statsRow \cap {m}}
                  /\ DOMAIN movieStats' = DOMAIN movieStats \cup {m}
                  /\ \A k \in DOMAIN movieStats : movieStats'[k] = movieStats[k]]_vars

\* the first write of movie 2 is recorded although the read of its stats row, which
\* holds a count of 40, has failed; that of movie 1, which has no stats row, too
C21_Witness ==
    /\ DOMAIN movieStats = {"1", "2"}
    /\ statsRow["2"].count = 40
    /\ movieStats["2"].LastRatingCount = 0
    /\ movieStats["2"].WriteCount = 1
    /\ movieStats["1"].LastRatingCount = 0
    /\ Len(recorded) = 2

\* the movies of the records GetHotMovies returned
Returned(top) == {top.result[i].MovieID : i \in 1..Len(top.result)}

\* C22: when GetHotMovies returns, every record of the tracker holds the score of the
\* current time, the records returned are the tracker's own, each once, in
\* non-increasing order of score; for limit > 0 they are min(limit, tracked movies)
\* many and no record left out has a higher score than one returned; for limit <= 0
\* every record is returned.
C22_TopIsSortedAndCut ==
    lastTop.called =>
      LET n == Cardinality(DOMAIN lastTop.stats)
          k == Len(lastTop.result)
      IN  /\ \A m \in DOMAIN lastTop.stats :
                lastTop.stats[m].HotnessScore = HotnessScoreOf(lastTop.stats[m], now)
          /\ \A i \in 1..k :
                /\ lastTop.result[i].MovieID \in DOMAIN lastTop.stats
                /\ lastTop.result[i] = lastTop.stats[lastTop.result[i].MovieID]
          /\ \A i, j \in 1..k :
                i < j => /\ lastTop.result[i].MovieID # lastTop.result[j].MovieID
                         /\ FracLeq(lastTop.result[j].HotnessScore,
                                    lastTop.result[i].HotnessScore)
          /\ k = IF lastTop.limit > 0 THEN MinOf(lastTop.limit, n) ELSE n
          /\ \A m \in DOMAIN lastTop.stats \ Returned(lastTop) :
                \A i \in 1..k :
                  FracLeq(lastTop.stats[m].HotnessScore, lastTop.result[i].HotnessScore)

\* GetHotMovies(1) has returned the record of movie 2 and left out that of movie 1,
\* whose score is lower
C22_Witness ==
    /\ lastTop.called
    /\ lastTop.limit = 1
    /\ DOMAIN lastTop.stats = {"1", "2"}
    /\ Returned(lastTop) = {"2"}
    /\ ~FracLeq(lastTop.stats["2"].HotnessScore, lastTop.stats["1"].HotnessScore)

\* C23: a GetHotMovies that follows another with the same limit, with no write
\* recorded and no recalculation run in between and at the same instant, returns the
\* same records in the same order with the same scores, also when scores are equal.
C23_TopIsIdempotent ==
    [][/\ lastTop.called
       /\ lastTop.stats = movieStats
       /\ lastTop.recalc = recalc
       /\ lastTop'.limit = lastTop.limit
       => lastTop'.result = lastTop.result]_vars

\* the step is GetMovieHotness answering for m
AnswersFor(m) == lastHot' # lastHot /\ lastHot'.movieID = m

\* C24: GetMovieHotness of a movie that has no record answers with an error and no
\* record, and leaves the tracker as it was: no record is created, the log, the
\* records and the recalculations are unchanged. Of a tracked movie it answers with
\* the movie's record, whose score is that of the current time; what the writes and
\* the recalculations maintain in the record, and every other record, are unchanged.
C24_HotnessOfUnknownIsNotFound ==
    [][\A m \in Movies :
         AnswersFor(m) =>
           IF m \notin DOMAIN movieStats
           THEN /\ ~lastHot'.found
                /\ lastHot'.hotness = <<>>
                /\ UNCHANGED <<trackerVars, api, storeVars, recorded>>
           ELSE /\ lastHot'.found
                /\ lastHot'.hotness = movieStats'[m]
                /\ lastHot'.hotness.MovieID = m
                /\ lastHot'.hotness.HotnessScore = HotnessScoreOf(movieStats[m], now)
                /\ \A f \in {"WriteCount", "LastWrite", "AvgRating", "LastRatingCount",
                              "NewWritesSinceCalc"} :
                      movieStats'[m][f] = movieStats[m][f]
                /\ DOMAIN movieStats' = DOMAIN movieStats
                /\ \A k \in DOMAIN movieStats \ {m} : movieStats'[k] = movieStats[k]
                /\ UNCHANGED <<writeRecords, recalc, rtsMu, recorded>>]_vars

\* GetMovieHotness has answered for movie 1, whose record holds the title it
\* resolved and the average a recalculation has set, and then with an error for
\* movie 3, which has never been written
C24_Witness ==
    /\ lastHot.movieID = "3"
    /\ ~lastHot.found
    /\ DOMAIN movieStats = {"1"}
    /\ movieStats["1"].Title # <<>>
    /\ movieStats["1"].NewWritesSinceCalc = 0

\* C25: what GetRecentWrites returned begins with the record appended last before
\* the call, and the timestamps do not increase along it.
C25_RecentIsNewestFirst ==
    lastRecent.result # <<>> =>
      /\ lastRecent.result[1] = recorded[lastRecent.at]
      /\ \A i, j \in 1..Len(lastRecent.result) :
            i < j => lastRecent.result[i].Timestamp >= lastRecent.result[j].Timestamp

\* the record is what GetMovieHotness answered with last, for the same movie, and
\* no write has changed it since
SameRecord(old, new) ==
    /\ old.MovieID = new.MovieID
    /\ old.WriteCount = new.WriteCount
    /\ old.LastWrite = new.LastWrite
    /\ old.AvgRating = new.AvgRating

\* C26: of two answers of GetMovieHotness for a movie, in the order they were given,
\* between which the movie was not written and its WriteCount and AvgRating stayed,
\* the later holds a score no higher than the earlier.
C26_ScoreDecays ==
    [][\A m \in Movies :
         /\ AnswersFor(m)
         /\ lastHot.found
         /\ lastHot'.found
         /\ SameRecord(lastHot.hotness, lastHot'.hotness)
         => FracLeq(lastHot'.hotness.HotnessScore, lastHot.hotness.HotnessScore)]_vars

\* GetMovieHotness has answered for movie 1 two hours after its only write, written
\* with 5.0, with a score below the 1 the write gave it
C26_Witness ==
    /\ lastHot.found
    /\ lastHot.movieID = "1"
    /\ now = 2
    /\ lastHot.hotness.LastWrite = 0
    /\ lastHot.hotness.AvgRating = <<10, 1>>
    /\ lastHot.hotness.HotnessScore = <<12, 13>>

\* writeCount * timeDecay, timeDecay = 1 / (1 + hours/24)
DecayedCount(hotness, t) == Frac(hotness.WriteCount * 24, 24 + (t - hotness.LastWrite))

\* writeCount * timeDecay * (0.7 + 0.3 * min(AvgRating / 5.0, 1.0))
CappedScoreOf(hotness, t) ==
    LET a == hotness.AvgRating
        q == IF a[1] >= 10 * a[2] THEN <<1, 1>> ELSE <<a[1], 10 * a[2]>>
        d == DecayedCount(hotness, t)
    IN  Frac(d[1] * (7 * q[2] + 3 * q[1]), d[2] * 10 * q[2])

\* C27: the score a write or GetMovieHotness leaves in a record is
\* writeCount * timeDecay * (0.7 + 0.3 * min(AvgRating / 5.0, 1.0)) and so never
\* exceeds writeCount * timeDecay, whatever ratings were written, those above 5
\* included.
C27_ScoreIsCapped ==
    [][\A m \in Movies :
         RecordedWrite(m) \/ (AnswersFor(m) /\ lastHot'.found)
           => LET h == movieStats'[m]
              IN  /\ h.HotnessScore = CappedScoreOf(h, now)
                  /\ FracLeq(h.HotnessScore, DecayedCount(h, now))]_vars

\* the generated items of movie m the log has taken, in the order it took them
RECURSIVE BatchItemsIn(_, _)
BatchItemsIn(records, m) ==
    IF records = <<>> THEN <<>>
    ELSE LET w == Head(records)
             rest == BatchItemsIn(Tail(records), m)
         IN  IF w.Source = "test_batch" /\ w.MovieID = m
             THEN <<[MovieID |-> w.MovieID, UserID |-> w.UserID, Rating |-> w.Rating,
                     Source |-> w.Source]>> \o rest
             ELSE rest

\* C28: when a flush records an item of a movie, the generated items of that movie
\* recorded last are the first items of the movie in the flushed buffer, in buffer
\* order, as many as this flush has recorded: the items of one flush are applied in
\* buffer order, and every item an earlier flush applied comes before them. A new
\* flush begins only when the one before has returned.
C28_AppliedInFlushOrder ==
    [][/\ RecordsBatchItem
          => LET m == recorded'[Len(recorded')].MovieID
                 j == flush.parts[m].next
                 applied == BatchItemsIn(recorded', m)
             IN  /\ Len(applied) >= j
                 /\ LastK(applied, j) = SubSeq(SelectItems(flush.items, m), 1, j)
                 /\ flush'.owner = flush.owner
       /\ FlushBegins
          => /\ flush.parts = <<>>
             /\ flush'.items = batchBuffer'
             /\ \A m \in DOMAIN flush'.parts : flush'.parts[m].next = 1]_vars

\* two flushes have returned: the first has recorded 5.0 and then 3.0 for movie 2,
\* the second 3.0 and then 5.0
C28_Witness ==
    /\ flush.owner = ""
    /\ flushes.size + flushes.timer + flushes.stop = 2
    /\ RatingsIn(recorded, "2") = <<10, 6, 6, 10>>

\* C29: a step of GetHotMovies, GetMovieHotness, GetRecentWrites, GetWriteStats or
\* GetMovieRatingThresholdStatus leaves the log, the set of records and, in every
\* record, WriteCount, LastWrite, AvgRating, LastRatingCount and NewWritesSinceCalc
\* as they were, and starts no recalculation.
C29_QueriesReadOnly ==
    [][Queries
         => /\ writeRecords' = writeRecords
            /\ recorded' = recorded
            /\ DOMAIN movieStats' = DOMAIN movieStats
            /\ \A m \in DOMAIN movieStats :
                  \A f \in {"WriteCount", "LastWrite", "AvgRating", "LastRatingCount",
                            "NewWritesSinceCalc"} :
                    movieStats'[m][f] = movieStats[m][f]
            /\ recalc' = recalc]_vars

\* GetRecentWrites, GetMovieHotness and GetHotMovies have answered, the last two
\* after a recalculation of movie 1 has left its score stale, and the record holds
\* the one write
C29_Witness ==
    /\ lastTop.called
    /\ lastHot.found
    /\ lastRecent.result # <<>>
    /\ movieStats["1"].WriteCount = 1
    /\ movieStats["1"].Title # <<>>
    /\ movieStats["1"].NewWritesSinceCalc = 0
    /\ Len(writeRecords) = 1

\* the single writes of movie m in the log
ApiRecorded(m) ==
    Cardinality({j \in 1..Len(recorded) :
                   recorded[j].Source = "api" /\ recorded[j].MovieID = m})

\* C30: a WriteRatingToHBase whose Put fails ends there: nothing is put, no
\* RecordRatingWrite is due, the log and every record are as before. One whose Put
\* succeeds has one RecordRatingWrite due, which appends one record of the request
\* to the log, adds 1 to the WriteCount of its movie and to no other, and is then
\* done; so the single writes recorded or due for a movie are as many as the Puts
\* that succeeded for it.
C30_SingleWriteOnceOrNever ==
    /\ [](\A m \in Movies :
            ApiRecorded(m) + (IF api.pc = "record" /\ api.movieID = m THEN 1 ELSE 0)
              = putOK[m])
    /\ [][/\ (\E m \in Movies, u \in Users, r \in Ratings : ApiPutFail(m, u, r))
             => UNCHANGED <<trackerVars, api, storeVars, putOK, recorded>>
          /\ (api.pc = "idle" /\ api'.pc = "record")
             => (/\ putOK' = [putOK EXCEPT ![api'.movieID] = @ + 1]
                 /\ api'.userID \in DOMAIN ratingsRow'[api'.movieID]
                 /\ ratingsRow'[api'.movieID][api'.userID] = api'.rating
                 /\ UNCHANGED <<trackerVars, recorded>>)
          /\ (api.pc = "record" /\ api' = api)
             => (/\ UNCHANGED <<recorded, writeRecords, putOK>>
                 /\ \A m \in Movies :
                      WriteCountOf(movieStats', m) = WriteCountOf(movieStats, m))
          /\ (api.pc = "record" /\ api' # api)
             => (/\ api' = NoRequest
                 /\ Len(recorded') = Len(recorded) + 1
                 /\ SubSeq(recorded', 1, Len(recorded)) = recorded
                 /\ recorded'[Len(recorded')].MovieID = api.movieID
                 /\ recorded'[Len(recorded')].UserID = api.userID
                 /\ recorded'[Len(recorded')].Rating = api.rating
                 /\ recorded'[Len(recorded')].Source = "api"
                 /\ \A m \in Movies :
                      WriteCountOf(movieStats', m) =
                        WriteCountOf(movieStats, m) + (IF m = api.movieID THEN 1 ELSE 0)
                 /\ UNCHANGED putOK)]_vars

\* the Put of a second single write of movie 1 has succeeded and its
\* RecordRatingWrite is due; the first is in the log and in the record
C30_Witness ==
    /\ api.pc = "record"
    /\ api.movieID = "1"
    /\ putOK["1"] = 2
    /\ ApiRecorded("1") = 1
    /\ WriteCountOf(movieStats, "1") = 1

\* the step is GetMovieRatingThresholdStatus answering for m
StatusFor(m) == lastStatus' # lastStatus /\ lastStatus'.movieId = m

\* C31: for a tracked movie GetMovieRatingThresholdStatus reports the record's
\* LastRatingCount and NewWritesSinceCalc, threshold = max(1, floor(0.1 *
\* LastRatingCount)) and needsRecalculation = (NewWritesSinceCalc >= threshold), which
\* is the condition under which checkAndRecalculateRating dispatches for the same
\* record; for any other movie it reports an error. In both cases the tracker, the
\* store and the request in flight are left as they were.
C31_StatusIsDispatchPredicate ==
    [][\A m \in Movies :
         StatusFor(m) =>
           /\ UNCHANGED <<trackerVars, api, storeVars, recorded>>
           /\ IF m \in DOMAIN movieStats
              THEN LET h == movieStats[m] IN
                   /\ ~lastStatus'.error
                   /\ lastStatus'.lastRatingCount = h.LastRatingCount
                   /\ lastStatus'.newWritesSinceCalc = h.NewWritesSinceCalc
                   /\ lastStatus'.threshold = StalenessThreshold(h.LastRatingCount)
                   /\ lastStatus'.needsRecalculation
                        = (h.NewWritesSinceCalc >= lastStatus'.threshold)
                   /\ lastStatus'.needsRecalculation = NeedsRecalculation(h)
              ELSE /\ lastStatus'.error
                   /\ DOMAIN lastStatus' = {"movieId", "error"}]_vars

\* GetMovieRatingThresholdStatus has reported for movie 3, written twice after a
\* count of 30 was read, a threshold of 3 that is not met; movie 1 has been written and
\* recalculated
C31_Witness ==
    /\ ~lastStatus.error
    /\ lastStatus.movieId = "3"
    /\ lastStatus.threshold = 3
    /\ lastStatus.newWritesSinceCalc = 2
    /\ ~lastStatus.needsRecalculation

TotalWriteCount == SumOver([m \in DOMAIN movieStats |-> movieStats[m].WriteCount],
                           DOMAIN movieStats)

\* C33: RecordRatingWrite appends to the log and updates the record of the movie
\* in one critical section of rts.mu, so in every state another operation of the
\* tracker can see, the log holds min(maxRecords, sum of WriteCount over all
\* records) records.
C33_LogMatchesWriteCounts ==
    /\ [](Len(writeRecords) = MinOf(maxRecords, TotalWriteCount))
    /\ [][\A m \in Movies :
            RecordedWrite(m) =>
              /\ rtsMu = 0 /\ rtsMu' = 0
              /\ recorded' # recorded
              /\ writeRecords'[Len(writeRecords')] = recorded'[Len(recorded')]]_vars

\* the log is full and has dropped a record: two movies have five writes between
\* them and the log holds three
C33_Witness ==
    /\ DOMAIN movieStats = {"1", "2"}
    /\ TotalWriteCount = maxRecords + 2
    /\ Len(writeRecords) = maxRecords
    /\ rtsMu = 0

\* The tracker under single writes of two ratings to one movie, the scans of the
\* recalculations kept
MaxWritesOverlap == 3

InitOverlap ==
    /\ InitState
    /\ batchSize = ScaledBatchSize
    /\ env = [movies |-> {"1"}, users |-> {"10001"}, ratings |-> Ratings,
              maxWrites |-> MaxWritesOverlap, genCounts |-> {}, restarts |-> FALSE,
              maxStarts |-> 0, statsOK |-> {TRUE},
              titlesOK |-> {TRUE}, replies |-> {"scans"}]

NextOverlap == SingleWrites \/ Recalculation

SpecOverlap == InitOverlap /\ [][NextOverlap]_vars

\* the step in which the recalculation goroutine in slot i completes for movie m
Completes(i, m) ==
    /\ recalc[i].pc = "set_avg"
    /\ recalc[i].movieID = m
    /\ recalc'[i].pc = "idle"

\* C34: when the last of the recalculations in flight for a movie completes, the
\* record's LastRatingCount and AvgRating and the stored statistics are those of the
\* recalculation, of all that have completed, whose scan read the ratings row last.
C34_NewestScanWins ==
    [][\A i \in Slots : \A m \in Movies :
          (Completes(i, m) /\ InFlight(recalc', m) = 0)
          => (/\ movieStats'[m].LastRatingCount = newestScan'[m].count
              /\ movieStats'[m].AvgRating = newestScan'[m].avg
              /\ statsRow'[m] = [avg6 |-> Fmt6(newestScan'[m].avg),
                                 count |-> newestScan'[m].count])]_vars

\* C35: when a recalculation completes, the record's NewWritesSinceCalc is the
\* number of writes recorded for the movie since the scan of that recalculation read
\* the ratings row.
C35_WritesSinceScanStayPending ==
    [][\A i \in Slots : \A m \in Movies :
          Completes(i, m)
          => movieStats'[m].NewWritesSinceCalc
               = movieStats'[m].WriteCount - recalc[i].wc]_vars

\* C36: at most one runOptimizedRandomRatingsTask goroutine is alive at any time: the
\* goroutine of an earlier start has returned before the goroutine of a later start
\* is launched.
C36_OneTaskAtATime ==
    Cardinality({t \in Tasks : pc[t] # "off"}) <= 1

\* The ingestion under start and stop requests that may be refused
MaxWritesCalls == 1

InitCalls ==
    /\ InitState
    /\ batchSize = ScaledBatchSize
    /\ env = [movies |-> {"4"}, users |-> {"10001"}, ratings |-> {10},
              maxWrites |-> MaxWritesCalls, genCounts |-> {1},
              restarts |-> TRUE, maxStarts |-> Cardinality(Callers),
              statsOK |-> {TRUE}, titlesOK |-> {TRUE}, replies |-> {"calls"}]

NextCalls ==
    \/ \E c \in Callers, op \in {"start", "stop"} : Call(c, op)
    \/ \E c \in Callers : StartRequest(c)
    \/ \E c \in Callers : StopRequest(c)
    \/ \E t \in Tasks : TaskStopped(t)
    \/ \E t \in Tasks : TaskTimeout(t)
    \/ \E t \in Tasks : TaskTick(t)
    \/ \E t \in Tasks : TaskFlushTick(t)
    \/ \E t \in Tasks : generateBatchData(t)
    \/ \E t \in Flushers : flushBatch(t)
    \/ \E m \in env.movies : PartitionPutOk(m)
    \/ \E m \in env.movies : PartitionPutFail(m)
    \/ \E m \in env.movies : PartitionRecord(m)
    \/ FlushFinish

SpecCalls == InitCalls /\ [][NextCalls]_vars

\* the step answers the request op of caller c with reply
Answers(c, op, reply) ==
    /\ calls[c].reply = ""
    /\ calls'[c].op = op
    /\ calls'[c].reply = reply

\* the accepted start requests that made channel ch
StartedWith(ch) ==
    {c \in Callers : calls[c].op = "start" /\ calls[c].reply = "ok" /\ calls[c].chan = ch}

C38_CountsAreInsertedItems ==
    flush.owner = ""
    => /\ SumOver(tcMovieStats, DOMAIN tcMovieStats) = totalInserted
       /\ totalInserted + errorCount = enqueued - Len(batchBuffer)

\* GetHotMovies returns []*MovieHotness and GetMovieHotness *MovieHotness, pointers
\* to the records of rts.movieStats: what the caller holds is what they point to
HeldTop ==
    [j \in 1..Len(lastTop.result) |-> movieStats[lastTop.result[j].MovieID]]
HeldHotness ==
    IF lastHot.found THEN movieStats[lastHot.movieID] ELSE <<>>

\* the fields of a held record that a write or a recalculation may assign
SnapshotOf(h) ==
    IF h = <<>> THEN <<>>
    ELSE [WriteCount |-> h.WriteCount, AvgRating |-> h.AvgRating,
          HotnessScore |-> h.HotnessScore,
          NewWritesSinceCalc |-> h.NewWritesSinceCalc]

\* C39: a write that is recorded and a recalculation that completes leave the
\* WriteCount, AvgRating, HotnessScore and NewWritesSinceCalc of the records
\* GetHotMovies and GetMovieHotness have returned as they were.
C39_ResultsAreSnapshots ==
    [][\A m \in Movies :
          (RecordedWrite(m) \/ \E i \in Slots : Completes(i, m))
          => (/\ \A j \in 1..Len(lastTop.result) :
                    SnapshotOf(HeldTop[j])' = SnapshotOf(HeldTop[j])
              /\ SnapshotOf(HeldHotness)' = SnapshotOf(HeldHotness))]_vars

\* The TestController without batches under start and stop requests
InitPlain ==
    /\ InitState
    /\ batchSize = ScaledBatchSize
    /\ env = [movies |-> {"4"}, users |-> {"10001"}, ratings |-> {10},
              maxWrites |-> 0, genCounts |-> {1}, restarts |-> FALSE, maxStarts |-> 0,
              statsOK |-> {TRUE}, titlesOK |-> {TRUE}, replies |-> {"calls"}]

NextPlain ==
    \/ \E c \in Callers, op \in {"start", "stop"} : Call(c, op)
    \/ \E c \in Callers : PlainStartRandomRatings(c)
    \/ \E c \in Callers : PlainStopRandomRatings(c)
    \/ \E t \in PlainThreads : addLog(t)

SpecPlain == InitPlain /\ [][NextPlain]_vars

\* C40: no handler of the TestController without batches and no goroutine of it
\* ever waits for tc.mu while it holds tc.mu itself, so that each handler gets to
\* its answer.
C40_NoWaitOnOwnLock ==
    \A t \in PlainThreads :
        plain.pc[t] \in {"addLog", "blocked"} => plain.mu # t
====
